---- MODULE Spec2Model ----
(***************************************************************************)
(* A model of the pushgo Simple Push server: the memcached channel store   *)
(* (EmceeStore), its connection pool and their callers.                    *)
(*                                                                         *)
(* Byte strings ([]byte) are sequences of 0..255.  Go strings that are     *)
(* built from bytes (memcached keys) are sequences of ASCII codes.         *)
(* An unsigned 64-bit integer is four 16-bit limbs, most significant       *)
(* first, so that uint64(int64) keeps its width.                           *)
(***************************************************************************)
EXTENDS Integers, Sequences, FiniteSets, TLC

VARIABLES
    mc,     \* the memcached contents: key (ASCII string) -> stored entry
    now,    \* time.Now().UTC().Unix()
    last,   \* the store operation that completed last, with its results
    prev,   \* the store operation that completed before `last`
    env,    \* the callers' inputs and the backend's behaviour in this run
    race,   \* the goroutines that run Update and Unregister step by step
    pure,   \* a function that is applied to arguments, and its results
    clients,      \* run(): the list of idle connections
    capacity,     \* run(): the number of connections the pool counts
    loop,         \* run(): "running" or "exited"
    closeSignal,  \* TRUE once the channel s.closeSignal is closed
    closeCount,   \* how many times close(s.closeSignal) ran
    isClosing,    \* s.isClosing
    lastErr,      \* s.lastErr
    conns,        \* every connection newClient opened: "open" or "closed"
    seeder,       \* the goroutine running Init
    callers,      \* the goroutines that acquire and release connections
    closers,      \* the goroutines that call Close
    lastGet,      \* the getClient call that returned last, with its results
    Clients,      \* simplepush.Clients: device ID -> the flushes queued for
                  \* the client of the device that is connected to this node
    workers,        \* Application.workers: device ID -> the installed worker
    workerCount,    \* Application.workerCount
    closedWorkers,  \* the workers on which Close() was called
    closeOnce,      \* Application.closeOnce and the goroutine calling Close
    goroutines      \* the goroutine of each worker: its position in
                    \* AddWorker and RemoveWorker

storeVars == <<mc, now, last, prev, env, race, pure>>

poolVars == <<clients, capacity, loop, closeSignal, closeCount, isClosing,
              lastErr, conns, seeder, callers, closers, lastGet>>

routeVars == <<Clients>>

appVars == <<workers, workerCount, closedWorkers, closeOnce, goroutines>>

vars == <<storeVars, poolVars, routeVars, appVars>>

-----------------------------------------------------------------------------
(* Bounds of the model. *)

MaxTime == 1        \* the clock runs over 0..MaxTime
MaxVersion == 2     \* version arguments are drawn from -1..MaxVersion

MinConns == 1       \* EmceeConfig.MinConns of the modelled pool
MaxConns == 2       \* EmceeConfig.MaxConns of the modelled pool
NumCallers == 3     \* goroutines using the pool
NumClosers == 2     \* goroutines calling Close

MaxIDLen == 2       \* the IDs given to toBinaryKey have 0..MaxIDLen bytes
MaxStrLen == 3
MaxArrLen == 4
MaxFlushes == 2
NumWorkers == 2

Versions == -1 .. MaxVersion
Times == 0 .. MaxTime

\* Device and channel IDs are 128 bit; the empty device ID exercises the
\* len(uaid) == 0 guards.
UA == [i \in 1..16 |-> 170]
CA == [i \in 1..16 |-> 187]
CB == [i \in 1..16 |-> 204]
UB == [i \in 1..16 |-> 153]
NoID == <<>>

Hosts == {"push1.example.com"}

-----------------------------------------------------------------------------
(* Channel record status constants and errors. *)

DELETED == 0
LIVE == 1
REGISTERED == 2

Nil == "nil"
ErrPoolSaturated == "Connection pool saturated"
ErrUnknownUAID == "Unknown UAID for host"
ErrNotFound == "NOT FOUND"
ErrServer == "SERVER ERROR"
ErrDecode == "gob: type mismatch"
NoChannelError == "NoChannelError"
InvalidPrimaryKeyError == "InvalidPrimaryKeyError"
InvalidChannelError == "InvalidChannelError"
MissingDataError == "MissingDataError"
NoDataToStoreError == "NoDataToStoreError"
Panic == "panic"

\* EmceeConfig defaults (seconds).
ChannelTimeout == 3 * 24 * 3600
RegisterTimeout == 3 * 3600
UnregisterTimeout == 1 * 24 * 3600
HostPrefix == <<95, 104, 45>>          \* "_h-"
DefaultHost == "localhost"

-----------------------------------------------------------------------------
(* Integer conversions. *)

\* uint64(version) of an int64 with |version| < 2^16: the two's complement
\* bit pattern, as four 16-bit limbs.
uint64(v) ==
    IF v >= 0 THEN <<0, 0, 0, v>> ELSE <<65535, 65535, 65535, 65536 + v>>

Zero64 == <<0, 0, 0, 0>>

-----------------------------------------------------------------------------
(* Byte slices and lists of channel IDs (type ia). *)

RECURSIVE BytesCompare(_, _)
\* bytes.Compare: -1, 0 or 1, lexicographically.
BytesCompare(a, b) ==
    IF a = <<>> /\ b = <<>> THEN 0
    ELSE IF a = <<>> THEN -1
    ELSE IF b = <<>> THEN 1
    ELSE IF Head(a) < Head(b) THEN -1
    ELSE IF Head(a) > Head(b) THEN 1
    ELSE BytesCompare(Tail(a), Tail(b))

Less(a, b) == BytesCompare(a, b) < 0

RECURSIVE IndexFrom(_, _, _)
IndexFrom(channelIDs, val, i) ==
    IF i > Len(channelIDs) THEN -1
    ELSE IF channelIDs[i] = val THEN i - 1
    ELSE IndexFrom(channelIDs, val, i + 1)

\* The 0-based position of val in channelIDs, or -1.
IndexOf(channelIDs, val) == IndexFrom(channelIDs, val, 1)

\* remove(list, pos) with a 0-based pos.
remove(list, pos) ==
    IF pos < 0 \/ pos = Len(list) THEN list
    ELSE SubSeq(list, 1, pos) \o SubSeq(list, pos + 2, Len(list))

RECURSIVE Insert(_, _)
Insert(sorted, x) ==
    IF sorted = <<>> THEN <<x>>
    ELSE IF Less(x, Head(sorted)) THEN <<x>> \o sorted
    ELSE <<Head(sorted)>> \o Insert(Tail(sorted), x)

RECURSIVE Sort(_)
\* sort.Sort(arr) under ia.Less.
Sort(arr) == IF arr = <<>> THEN <<>> ELSE Insert(Sort(Tail(arr)), Head(arr))

Range(s) == {s[i] : i \in 1..Len(s)}

-----------------------------------------------------------------------------
(* Keys. *)

\* Converts a (uaid, chid) tuple to a 32 byte binary primary key.
toBinaryKey(uaid, chid) ==
    LET aoff == IF 16 - Len(uaid) < 0 THEN 0 ELSE 16 - Len(uaid)
        boff == IF 32 - Len(chid) < 16 THEN 16 ELSE 32 - Len(chid)
        k1 == [i \in 1..32 |->
                 IF i > aoff /\ i - aoff <= Len(uaid) THEN uaid[i - aoff] ELSE 0]
    IN  [i \in 1..32 |->
           IF i > boff /\ i - boff <= Len(chid) THEN chid[i - boff] ELSE k1[i]]

\* The ASCII code of the n-th character of the standard Base64 alphabet.
B64Char(n) ==
    IF n < 26 THEN 65 + n
    ELSE IF n < 52 THEN 97 + (n - 26)
    ELSE IF n < 62 THEN 48 + (n - 52)
    ELSE IF n = 62 THEN 43 ELSE 47

RECURSIVE encodeKey(_)
\* base64.StdEncoding.EncodeToString(key), '=' padded.
encodeKey(key) ==
    IF Len(key) = 0 THEN <<>>
    ELSE IF Len(key) = 1 THEN
        <<B64Char(key[1] \div 4), B64Char((key[1] % 4) * 16), 61, 61>>
    ELSE IF Len(key) = 2 THEN
        <<B64Char(key[1] \div 4),
          B64Char((key[1] % 4) * 16 + key[2] \div 16),
          B64Char((key[2] % 16) * 4), 61>>
    ELSE
        <<B64Char(key[1] \div 4),
          B64Char((key[1] % 4) * 16 + key[2] \div 16),
          B64Char((key[2] % 16) * 4 + key[3] \div 64),
          B64Char(key[3] % 64)>> \o encodeKey(SubSeq(key, 4, Len(key)))

HexDigit(n) == IF n < 10 THEN 48 + n ELSE 87 + n

RECURSIVE HexEncode(_)
\* hex.EncodeToString(b)
HexEncode(b) ==
    IF b = <<>> THEN <<>>
    ELSE <<HexDigit(Head(b) \div 16), HexDigit(Head(b) % 16)>> \o HexEncode(Tail(b))

HostKey(uaid) == HostPrefix \o HexEncode(uaid)

-----------------------------------------------------------------------------
(* The memcached client.  Every call names its outcome o: "ok", or the     *)
(* transport error the call returns, or ErrPoolSaturated when getClient    *)
(* yields no connection.                                                   *)

Ok == "ok"
CallOutcomes == {Ok, ErrServer, ErrPoolSaturated}
MaxCalls == 8
NoFaults == [i \in 1..MaxCalls |-> Ok]

\* Determines whether the given error is a memcached "missing key" error:
\* strings.Contains("NOT FOUND", err.Error()).
isMissing(err) == err \in {"NOT FOUND", "NOT", "FOUND", ""}

\* Stored entries have one shape; t is the Gob type of the value.
CrEntry(rec, ttl) ==
    [t |-> "cr", S |-> rec.S, V |-> rec.V, L |-> rec.L, arr |-> <<>>, str |-> "", ttl |-> ttl]
IaEntry(arr) ==
    [t |-> "ia", S |-> 0, V |-> Zero64, L |-> 0, arr |-> arr, str |-> "", ttl |-> 0]
StrEntry(s, ttl) ==
    [t |-> "str", S |-> 0, V |-> Zero64, L |-> 0, arr |-> <<>>, str |-> s, ttl |-> ttl]

ZeroRec == [S |-> 0, V |-> Zero64, L |-> 0]
RecOf(e) == [S |-> e.S, V |-> e.V, L |-> e.L]

\* client.Get(key, &value) decoding a value of Gob type t.
McGet(m, key, t, o) ==
    IF o # Ok THEN [err |-> o, val |-> IaEntry(<<>>)]
    ELSE IF key \notin DOMAIN m THEN [err |-> ErrNotFound, val |-> IaEntry(<<>>)]
    ELSE IF m[key].t # t THEN [err |-> ErrDecode, val |-> IaEntry(<<>>)]
    ELSE [err |-> Nil, val |-> m[key]]

\* client.Set(key, value, ttl)
McSet(m, key, entry, o) ==
    IF o # Ok THEN [err |-> o, mc |-> m]
    ELSE [err |-> Nil,
          mc |-> [k \in DOMAIN m \cup {key} |-> IF k = key THEN entry ELSE m[k]]]

\* client.Delete(key, 0)
McDelete(m, key, o) ==
    IF o # Ok THEN [err |-> o, mc |-> m]
    ELSE IF key \notin DOMAIN m THEN [err |-> ErrNotFound, mc |-> m]
    ELSE [err |-> Nil, mc |-> [k \in DOMAIN m \ {key} |-> m[k]]]

-----------------------------------------------------------------------------
(* EmceeStore: private functions.  m is the memcached contents, t the      *)
(* current time, o the outcome of the function's memcached call.           *)

RECURSIVE pareDuplicates(_, _, _, _)
\* The loop "for i, chid := range result" that pares out duplicates.  The
\* range runs over the n elements of the original slice and reads them from
\* the backing array arr, which remove() shifts in place; len is the length
\* of the re-sliced result.  result[i+1:] panics when i+1 > len(result).
pareDuplicates(arr, len, i, n) ==
    IF i >= n THEN [panic |-> FALSE, result |-> SubSeq(arr, 1, len)]
    ELSE IF i + 1 > len THEN [panic |-> TRUE, result |-> <<>>]
    ELSE LET chid == arr[i + 1]
             dup == IndexOf(SubSeq(arr, i + 2, len), chid)
             pos == i + dup
             shifted == [j \in 1..n |->
                           IF j > pos /\ j < len THEN arr[j + 1] ELSE arr[j]]
         IN  IF dup > -1
             THEN pareDuplicates(shifted, len - 1, i + 1, n)
             ELSE pareDuplicates(arr, len, i + 1, n)

\* Queries memcached for the list of subscriptions of the device.
fetchAppIDArray(m, uaid, o) ==
    IF Len(uaid) = 0 THEN [result |-> <<>>, err |-> Nil]
    ELSE LET g == McGet(m, encodeKey(uaid), "ia", o)
             p == pareDuplicates(g.val.arr, Len(g.val.arr), 0, Len(g.val.arr))
         IN  IF g.err # Nil
             THEN IF isMissing(g.err)
                  THEN [result |-> <<>>, err |-> Nil]
                  ELSE [result |-> <<>>, err |-> g.err]
             ELSE IF p.panic THEN [result |-> <<>>, err |-> Panic]
             ELSE [result |-> p.result, err |-> Nil]

\* Writes the sorted subscription list of the device to memcached.
storeAppIDArray(m, uaid, arr, o) ==
    IF Len(uaid) = 0 THEN [mc |-> m, err |-> MissingDataError]
    ELSE McSet(m, encodeKey(uaid), IaEntry(Sort(arr)), o)

\* Retrieves a channel record from memcached.  A missing key yields the
\* zero record (state 0 = DELETED) and no error.
fetchRec(m, pk, o) ==
    IF Len(pk) = 0 THEN [rec |-> ZeroRec, isNil |-> TRUE, err |-> InvalidPrimaryKeyError]
    ELSE LET g == McGet(m, encodeKey(pk), "cr", o)
         IN  IF g.err # Nil /\ ~isMissing(g.err)
             THEN [rec |-> ZeroRec, isNil |-> TRUE, err |-> g.err]
             ELSE IF g.err # Nil
             THEN [rec |-> ZeroRec, isNil |-> FALSE, err |-> Nil]
             ELSE [rec |-> RecOf(g.val), isNil |-> FALSE, err |-> Nil]

\* Variant: a DELETED record is given the TTL of a LIVE record.
ttlOfNoDeletedCase(S) ==
    IF S = REGISTERED THEN RegisterTimeout
    ELSE ChannelTimeout

\* The TTL storeRec chooses for a record state.
ttlOf(S) ==
    IF S = DELETED THEN UnregisterTimeout
    ELSE IF S = REGISTERED THEN RegisterTimeout
    ELSE ChannelTimeout

\* Stores an updated channel record in memcached.  A failed Set is logged
\* and nil is returned.
storeRec(m, t, pk, rec, o) ==
    IF Len(pk) = 0 THEN [mc |-> m, err |-> InvalidPrimaryKeyError]
    ELSE IF o = ErrPoolSaturated THEN [mc |-> m, err |-> o]
    ELSE LET r == [rec EXCEPT !.L = t]
             s == McSet(m, encodeKey(pk), CrEntry(r, ttlOf(r.S)), o)
         IN  [mc |-> s.mc, err |-> Nil]

\* Stores host information in memcached.
storeHost(m, uaid, host, o) ==
    LET s == McSet(m, HostPrefix \o uaid, StrEntry(host, ChannelTimeout), o)
    IN  IF s.err = Nil \/ isMissing(s.err) THEN [mc |-> s.mc, err |-> Nil] ELSE s

-----------------------------------------------------------------------------
(* EmceeStore: the Adapter operations, as functions of the memcached       *)
(* contents m, the time t, the arguments and the outcomes f of the         *)
(* memcached calls the operation makes, in order.                          *)

\* Exists: fetchAppIDArray returned no error.
ExistsOp(m, uaid, f) == fetchAppIDArray(m, uaid, f[1]).err = Nil

\* The record Register builds: REGISTERED, or LIVE when version != 0.
registerRec(version, t) ==
    IF version # 0
    THEN [S |-> LIVE, V |-> uint64(version), L |-> t]
    ELSE [S |-> REGISTERED, V |-> Zero64, L |-> t]

\* Variant: the channel ID is not appended to the stored list.
RegisterOpNoAppend(m, t, uaid, chid, version, f) ==
    IF Len(uaid) = 0 THEN [mc |-> m, err |-> NoChannelError]
    ELSE LET fa == fetchAppIDArray(m, uaid, f[1])
             sa == IF IndexOf(fa.result, chid) < 0
                   THEN storeAppIDArray(m, uaid, fa.result, f[2])
                   ELSE [mc |-> m, err |-> Nil]
             rec == registerRec(version, t)
         IN  IF fa.err # Nil THEN [mc |-> m, err |-> fa.err]
             ELSE IF sa.err # Nil THEN [mc |-> sa.mc, err |-> sa.err]
             ELSE storeRec(sa.mc, t, toBinaryKey(uaid, chid), rec, f[3])

RegisterOp(m, t, uaid, chid, version, f) ==
    IF Len(uaid) = 0 THEN [mc |-> m, err |-> NoChannelError]
    ELSE LET fa == fetchAppIDArray(m, uaid, f[1])
             sa == IF IndexOf(fa.result, chid) < 0
                   THEN storeAppIDArray(m, uaid, Append(fa.result, chid), f[2])
                   ELSE [mc |-> m, err |-> Nil]
             rec == registerRec(version, t)
         IN  IF fa.err # Nil THEN [mc |-> m, err |-> fa.err]
             ELSE IF sa.err # Nil THEN [mc |-> sa.mc, err |-> sa.err]
             ELSE storeRec(sa.mc, t, toBinaryKey(uaid, chid), rec, f[3])

\* Variant: the record is not marked LIVE.
newRecordNotLive(version, t) == [V |-> uint64(version), S |-> REGISTERED, L |-> t]

\* The record Update writes over a record that is not DELETED.
newRecord(version, t) == [V |-> uint64(version), S |-> LIVE, L |-> t]

\* Variant: an Update of a channel without a usable record is rejected.
UpdateOpRejectUnknown(m, t, uaid, chid, version, f) ==
    IF Len(uaid) = 0 \/ Len(chid) = 0 THEN [mc |-> m, err |-> InvalidPrimaryKeyError]
    ELSE LET key == toBinaryKey(uaid, chid)
             fr == fetchRec(m, key, f[1])
         IN  IF fr.err # Nil /\ ~isMissing(fr.err) THEN [mc |-> m, err |-> fr.err]
             ELSE IF ~fr.isNil /\ fr.rec.S # DELETED
             THEN storeRec(m, t, key, [V |-> uint64(version), S |-> LIVE, L |-> t], f[2])
             ELSE [mc |-> m, err |-> InvalidChannelError]

\* Variant: an Update whose version is below the stored one is ignored.
UpdateOpMonotonic(m, t, uaid, chid, version, f) ==
    IF Len(uaid) = 0 \/ Len(chid) = 0 THEN [mc |-> m, err |-> InvalidPrimaryKeyError]
    ELSE LET key == toBinaryKey(uaid, chid)
             fr == fetchRec(m, key, f[1])
         IN  IF fr.err # Nil /\ ~isMissing(fr.err) THEN [mc |-> m, err |-> fr.err]
             ELSE IF ~fr.isNil /\ fr.rec.S # DELETED
             THEN IF BytesCompare(uint64(version), fr.rec.V) < 0
                  THEN [mc |-> m, err |-> Nil]
                  ELSE storeRec(m, t, key, [V |-> uint64(version), S |-> LIVE, L |-> t], f[2])
             ELSE RegisterOp(m, t, uaid, chid, version, Tail(f))

UpdateOp(m, t, uaid, chid, version, f) ==
    IF Len(uaid) = 0 \/ Len(chid) = 0 THEN [mc |-> m, err |-> InvalidPrimaryKeyError]
    ELSE LET key == toBinaryKey(uaid, chid)
             fr == fetchRec(m, key, f[1])
         IN  IF fr.err # Nil /\ ~isMissing(fr.err) THEN [mc |-> m, err |-> fr.err]
             ELSE IF ~fr.isNil /\ fr.rec.S # DELETED
             THEN storeRec(m, t, key, newRecord(version, t), f[2])
             ELSE RegisterOp(m, t, uaid, chid, version, Tail(f))

RECURSIVE unregisterRetry(_, _, _, _, _)
\* The loop "for x := 0; x < 3; x++" of Unregister; its errors are dropped.
unregisterRetry(m, t, key, f, x) ==
    IF x >= 3 THEN m
    ELSE LET fr == fetchRec(m, key, f[3 + 2 * x])
         IN  IF fr.err # Nil THEN unregisterRetry(m, t, key, f, x + 1)
             ELSE storeRec(m, t, key, [fr.rec EXCEPT !.S = DELETED], f[4 + 2 * x]).mc

RECURSIVE unregisterTries(_, _, _, _)
\* The number of passes the loop of Unregister makes: it goes on while
\* fetchRec fails and x < 3, and breaks after the first storeRec.
unregisterTries(m, key, f, x) ==
    IF x >= 3 THEN 0
    ELSE IF fetchRec(m, key, f[3 + 2 * x]).err # Nil
    THEN 1 + unregisterTries(m, key, f, x + 1)
    ELSE 1

\* Variant: the error of the last failed attempt is returned.
UnregisterOpPropagate(m, t, uaid, chid, f) ==
    LET fa == fetchAppIDArray(m, uaid, f[1])
        pos == IndexOf(fa.result, chid)
        key == toBinaryKey(uaid, chid)
        sa == storeAppIDArray(m, uaid, remove(fa.result, pos), f[2])
        allFail == \A x \in 0..2 : fetchRec(sa.mc, key, f[3 + 2 * x]).err # Nil
    IN  IF fa.err # Nil THEN [mc |-> m, err |-> fa.err]
        ELSE IF pos < 0 THEN [mc |-> m, err |-> InvalidChannelError]
        ELSE IF sa.err # Nil THEN [mc |-> sa.mc, err |-> sa.err]
        ELSE [mc |-> unregisterRetry(sa.mc, t, key, f, 0),
              err |-> IF allFail THEN fetchRec(sa.mc, key, f[7]).err ELSE Nil]

\* Variant: Unregister does not test whether the channel is in the list.
UnregisterOpNoPosCheck(m, t, uaid, chid, f) ==
    LET fa == fetchAppIDArray(m, uaid, f[1])
        pos == IndexOf(fa.result, chid)
        key == toBinaryKey(uaid, chid)
        sa == storeAppIDArray(m, uaid, remove(fa.result, pos), f[2])
    IN  IF fa.err # Nil THEN [mc |-> m, err |-> fa.err]
        ELSE IF sa.err # Nil THEN [mc |-> sa.mc, err |-> sa.err]
        ELSE [mc |-> unregisterRetry(sa.mc, t, key, f, 0), err |-> Nil]

\* Variant: Unregister deletes the record instead of marking it DELETED.
UnregisterOpHardDelete(m, t, uaid, chid, f) ==
    LET fa == fetchAppIDArray(m, uaid, f[1])
        pos == IndexOf(fa.result, chid)
        key == toBinaryKey(uaid, chid)
        sa == storeAppIDArray(m, uaid, remove(fa.result, pos), f[2])
    IN  IF fa.err # Nil THEN [mc |-> m, err |-> fa.err]
        ELSE IF pos < 0 THEN [mc |-> m, err |-> InvalidChannelError]
        ELSE IF sa.err # Nil THEN [mc |-> sa.mc, err |-> sa.err]
        ELSE [mc |-> McDelete(sa.mc, encodeKey(key), f[3]).mc, err |-> Nil]

UnregisterOp(m, t, uaid, chid, f) ==
    LET fa == fetchAppIDArray(m, uaid, f[1])
        pos == IndexOf(fa.result, chid)
        key == toBinaryKey(uaid, chid)
        sa == storeAppIDArray(m, uaid, remove(fa.result, pos), f[2])
    IN  IF fa.err # Nil THEN [mc |-> m, err |-> fa.err]
        ELSE IF pos < 0 THEN [mc |-> m, err |-> InvalidChannelError]
        ELSE IF sa.err # Nil THEN [mc |-> sa.mc, err |-> sa.err]
        ELSE [mc |-> unregisterRetry(sa.mc, t, key, f, 0), err |-> Nil]

\* Variant: Drop also takes the channel out of the device's list.
DropOpFromDeviceSet(m, uaid, chid, f) ==
    IF f[1] = ErrPoolSaturated THEN [mc |-> m, err |-> f[1]]
    ELSE LET d == McDelete(m, encodeKey(toBinaryKey(uaid, chid)), f[1])
             fa == fetchAppIDArray(d.mc, uaid, f[2])
             sa == storeAppIDArray(d.mc, uaid,
                                   remove(fa.result, IndexOf(fa.result, chid)), f[3])
         IN  IF d.err = Nil \/ isMissing(d.err) THEN [mc |-> sa.mc, err |-> Nil] ELSE d

DropOp(m, uaid, chid, f) ==
    IF f[1] = ErrPoolSaturated THEN [mc |-> m, err |-> f[1]]
    ELSE LET d == McDelete(m, encodeKey(toBinaryKey(uaid, chid)), f[1])
         IN  IF d.err = Nil \/ isMissing(d.err) THEN [mc |-> d.mc, err |-> Nil] ELSE d

RECURSIVE fetchLoop(_, _, _, _, _, _, _)
\* The loop of FetchAll over the keys of the device's channels.
fetchLoop(m, t, uaid, chids, sinceUnix, f, index) ==
    IF index > Len(chids) THEN [updates |-> <<>>, expired |-> <<>>]
    ELSE LET chid == chids[index]
             g == McGet(m, encodeKey(toBinaryKey(uaid, chid)), "cr", f[2 + index])
             rest == fetchLoop(m, t, uaid, chids, sinceUnix, f, index + 1)
             channel == RecOf(g.val)
             version == IF channel.V = Zero64 THEN uint64(t) ELSE channel.V
         IN  IF g.err # Nil THEN rest
             ELSE IF channel.L < sinceUnix THEN rest
             ELSE IF channel.S = LIVE
             THEN [rest EXCEPT !.updates =
                     <<[ChannelID |-> HexEncode(chid), Version |-> version]>> \o @]
             ELSE IF channel.S = DELETED
             THEN [rest EXCEPT !.expired = <<chid>> \o @]
             ELSE rest

FetchAllOp(m, t, uaid, sinceUnix, f) ==
    LET fa == fetchAppIDArray(m, uaid, f[1])
        r == fetchLoop(m, t, uaid, fa.result, sinceUnix, f, 1)
    IN  IF fa.err # Nil THEN [updates |-> <<>>, expired |-> <<>>, err |-> fa.err]
        ELSE IF f[2] = ErrPoolSaturated
        THEN [updates |-> <<>>, expired |-> <<>>, err |-> f[2]]
        ELSE [updates |-> r.updates, expired |-> r.expired, err |-> Nil]

RECURSIVE dropLoop(_, _, _, _, _)
\* The loop of DropAll; the results of its Delete calls are dropped.
dropLoop(m, uaid, chids, f, index) ==
    IF index > Len(chids) THEN m
    ELSE dropLoop(McDelete(m, encodeKey(toBinaryKey(uaid, chids[index])), f[2]).mc,
                  uaid, chids, f, index + 1)

DropAllOp(m, uaid, f) ==
    LET fa == fetchAppIDArray(m, uaid, f[1])
        m1 == dropLoop(m, uaid, fa.result, f, 1)
        d1 == McDelete(m1, encodeKey(uaid), f[3])
        d2 == McDelete(d1.mc, HostKey(uaid), f[4])
    IN  IF fa.err # Nil THEN [mc |-> m, err |-> fa.err]
        ELSE IF f[2] = ErrPoolSaturated THEN [mc |-> m, err |-> f[2]]
        ELSE IF d1.err # Nil /\ ~isMissing(d1.err) THEN [mc |-> d1.mc, err |-> d1.err]
        ELSE IF d2.err # Nil /\ ~isMissing(d2.err) THEN [mc |-> d2.mc, err |-> d2.err]
        ELSE [mc |-> d2.mc, err |-> Nil]

PutHostOp(m, uaid, host, f) ==
    IF f[1] = ErrPoolSaturated THEN [mc |-> m, err |-> f[1]]
    ELSE storeHost(m, HexEncode(uaid), IF host = "" THEN DefaultHost ELSE host, f[1])

-----------------------------------------------------------------------------
(* The store as a state machine: one action per Adapter operation.         *)
(* env names the device and channel IDs the callers use, the outcome       *)
(* schedules the memcached calls may follow, whether the operation before  *)
(* the last one is remembered, and the goroutines that use the pool.       *)

\* The goroutines that may use the pool, and those that call Close: the
\* first and the last of the NumClosers.
Callers == 1 .. NumCallers
Closers == {1, NumClosers}

\* No function is applied.
NoInput == [fn |-> "none", in |-> <<>>, out |-> <<>>]

\* The goroutine of a racing call before the call is made.
Idle == [pc |-> "idle", version |-> 0, chids |-> <<>>, rec |-> ZeroRec, err |-> Nil]

\* No worker.
NoWorker == 0

\* A worker before its client has said hello.
NewWorker ==
    [pc |-> "new", uaid |-> NoID, prev |-> NoWorker, rm |-> "idle", removed |-> FALSE]

\* The goroutine of a racing Register before the call is made.
RegIdle == [pc |-> "idle", chid |-> NoID, version |-> 0, chids |-> <<>>, err |-> Nil]

\* No call is racing.
RaceIdle ==
    [uaid |-> NoID, chid |-> NoID, upd |-> Idle, unr |-> Idle, later |-> Idle,
     regs |-> [g \in {1, 2} |-> RegIdle]]

\* Two channels of one device; memcached answers every call.
EnvStore ==
    [uaids |-> {UA}, chids |-> {CA, CB}, versions |-> {-1, 0, MaxVersion},
     faults |-> {NoFaults}, keepPrev |-> FALSE, inputs |-> {NoInput},
     callers |-> Callers, closers |-> Closers, ops |-> {}]

\* One channel of one device, remembering the last two operations.
EnvSeq ==
    [uaids |-> {UA}, chids |-> {CA}, versions |-> {-1, 0, 1, MaxVersion},
     faults |-> {NoFaults}, keepPrev |-> TRUE, inputs |-> {NoInput},
     callers |-> Callers, closers |-> Closers, ops |-> {}]

\* The schedules of call outcomes a failing backend follows: the call at
\* position i fails with the error e, alone or with every call after it.
\* An operation returns when one of its first two calls fails, so that a
\* lasting failure makes a difference from the third call on.  Only the
\* first four calls of an operation tell a saturated pool from a failed
\* call: the later ones are those of the loop of Unregister.
FailAt(i, e) == [j \in 1..MaxCalls |-> IF j = i THEN e ELSE Ok]
FailFrom(i, e) == [j \in 1..MaxCalls |-> IF j >= i THEN e ELSE Ok]
Faults ==
    {NoFaults}
    \cup {FailAt(i, ErrServer) : i \in 1..MaxCalls}
    \cup {FailAt(i, ErrPoolSaturated) : i \in 1..4}
    \cup {FailFrom(i, ErrServer) : i \in 3..MaxCalls - 1}

\* One channel of one device; memcached or the pool may fail any call.
EnvFault ==
    [uaids |-> {UA}, chids |-> {CA}, versions |-> {0, MaxVersion},
     faults |-> Faults, keepPrev |-> FALSE, inputs |-> {NoInput},
     callers |-> Callers, closers |-> Closers, ops |-> {}]

History == IF env.keepPrev THEN last ELSE prev

OpRec(op, uaid, chid, version, err) ==
    [op |-> op, uaid |-> uaid, chid |-> chid, version |-> version, since |-> 0,
     err |-> err, updates |-> <<>>, expired |-> <<>>, exists |-> FALSE]

NoOp == OpRec("none", NoID, NoID, 0, Nil)

\* The state after NewEmcee(): an empty memcached, no operation yet, and the
\* pool's run loop started with no connection.  e is the run's environment.
InitWith(e) ==
    /\ mc = [k \in {} |-> IaEntry(<<>>)]
    /\ now = 0
    /\ last = NoOp
    /\ prev = NoOp
    /\ env = e
    /\ race = RaceIdle
    /\ pure \in e.inputs
    /\ clients = <<>>
    /\ capacity = 0
    /\ loop = "running"
    /\ closeSignal = FALSE
    /\ closeCount = 0
    /\ isClosing = FALSE
    /\ lastErr = Nil
    /\ conns = <<>>
    /\ seeder = [pc |-> IF MinConns > 0 THEN "new" ELSE "done", index |-> 0,
                 client |-> 0, err |-> Nil]
    /\ callers = [p \in 1 .. NumCallers |->
                   [pc |-> "idle", client |-> 0,
                    op |-> IF e.ops = {} THEN "pool" ELSE "none",
                    fns |-> <<>>, todo |-> <<>>]]
    /\ closers = [q \in 1 .. NumClosers |-> [pc |-> "idle", err |-> Nil]]
    /\ lastGet = [caller |-> 0, client |-> 0, err |-> Nil, via |-> "none"]
    /\ Clients = [u \in {} |-> <<>>]
    /\ workers = [u \in {} |-> NoWorker]
    /\ workerCount = 0
    /\ closedWorkers = {}
    /\ closeOnce = [done |-> FALSE, pc |-> "idle"]
    /\ goroutines = [w \in 1 .. NumWorkers |-> NewWorker]

Exists ==
    \E uaid \in env.uaids, f \in env.faults :
        /\ last' = [OpRec("Exists", uaid, NoID, 0, Nil) EXCEPT
                      !.exists = ExistsOp(mc, uaid, f)]
        /\ prev' = History
        /\ UNCHANGED <<mc, now, env, race, pure, poolVars, routeVars, appVars>>

Register ==
    \E uaid \in env.uaids, chid \in env.chids, version \in env.versions, f \in env.faults :
        LET r == RegisterOp(mc, now, uaid, chid, version, f)
        IN  /\ mc' = r.mc
            /\ last' = OpRec("Register", uaid, chid, version, r.err)
            /\ prev' = History
            /\ UNCHANGED <<now, env, race, pure, poolVars, routeVars, appVars>>

Update ==
    \E uaid \in env.uaids, chid \in env.chids, version \in env.versions, f \in env.faults :
        LET r == UpdateOp(mc, now, uaid, chid, version, f)
        IN  /\ mc' = r.mc
            /\ last' = OpRec("Update", uaid, chid, version, r.err)
            /\ prev' = History
            /\ UNCHANGED <<now, env, race, pure, poolVars, routeVars, appVars>>

Unregister ==
    \E uaid \in env.uaids, chid \in env.chids, f \in env.faults :
        LET r == UnregisterOp(mc, now, uaid, chid, f)
        IN  /\ mc' = r.mc
            /\ last' = OpRec("Unregister", uaid, chid, 0, r.err)
            /\ prev' = History
            /\ UNCHANGED <<now, env, race, pure, poolVars, routeVars, appVars>>

Drop ==
    \E uaid \in env.uaids, chid \in env.chids, f \in env.faults :
        LET r == DropOp(mc, uaid, chid, f)
        IN  /\ mc' = r.mc
            /\ last' = OpRec("Drop", uaid, chid, 0, r.err)
            /\ prev' = History
            /\ UNCHANGED <<now, env, race, pure, poolVars, routeVars, appVars>>

FetchAll ==
    \E uaid \in env.uaids, since \in Times, f \in env.faults :
        LET r == FetchAllOp(mc, now, uaid, since, f)
        IN  /\ last' = [OpRec("FetchAll", uaid, NoID, 0, r.err) EXCEPT
                          !.since = since, !.updates = r.updates,
                          !.expired = r.expired]
            /\ prev' = History
            /\ UNCHANGED <<mc, now, env, race, pure, poolVars, routeVars, appVars>>

DropAll ==
    \E uaid \in env.uaids, f \in env.faults :
        LET r == DropAllOp(mc, uaid, f)
        IN  /\ mc' = r.mc
            /\ last' = OpRec("DropAll", uaid, NoID, 0, r.err)
            /\ prev' = History
            /\ UNCHANGED <<now, env, race, pure, poolVars, routeVars, appVars>>

PutHost ==
    \E uaid \in env.uaids, host \in Hosts, f \in env.faults :
        LET r == PutHostOp(mc, uaid, host, f)
        IN  /\ mc' = r.mc
            /\ last' = OpRec("PutHost", uaid, NoID, 0, r.err)
            /\ prev' = History
            /\ UNCHANGED <<now, env, race, pure, poolVars, routeVars, appVars>>

\* memcached drops an entry that was Set with a non-zero TTL once the TTL
\* has run out.
Expire ==
    \E key \in DOMAIN mc :
        /\ mc[key].ttl > 0
        /\ mc' = [k \in DOMAIN mc \ {key} |-> mc[k]]
        /\ last' = OpRec("Expire", NoID, NoID, 0, Nil)
        /\ prev' = History
        /\ UNCHANGED <<now, env, race, pure, poolVars, routeVars, appVars>>

\* The clock advances.
Tick ==
    /\ now < MaxTime
    /\ now' = now + 1
    /\ UNCHANGED <<mc, last, prev, env, race, pure, poolVars, routeVars, appVars>>

-----------------------------------------------------------------------------
(* toBinaryKey applied to two pairs of IDs of any length up to MaxIDLen.   *)

KeyBytes == {0, 1}

\* The byte strings of length n over KeyBytes.
BytesOfLen(n) == [1..n -> KeyBytes]

\* The byte strings of at most MaxIDLen bytes.
ShortIDs == UNION {BytesOfLen(n) : n \in 0..MaxIDLen}

\* Two (uaid, chid) pairs that toBinaryKey is to be applied to.
KeyInputs ==
    {[fn |-> "toBinaryKey", in |-> <<u1, c1, u2, c2>>, out |-> <<>>] :
        u1 \in ShortIDs, c1 \in ShortIDs, u2 \in ShortIDs, c2 \in ShortIDs}

EnvKey ==
    [uaids |-> {UA}, chids |-> {CA}, versions |-> Versions,
     faults |-> {NoFaults}, keepPrev |-> FALSE, inputs |-> KeyInputs,
     callers |-> Callers, closers |-> Closers, ops |-> {}]

\* key, _ := toBinaryKey(uaid, chid), for both pairs.
ApplyToBinaryKey ==
    /\ pure.fn = "toBinaryKey"
    /\ pure.out = <<>>
    /\ pure' = [pure EXCEPT !.out = <<toBinaryKey(pure.in[1], pure.in[2]),
                                      toBinaryKey(pure.in[3], pure.in[4])>>]
    /\ UNCHANGED <<mc, now, last, prev, env, race, poolVars, routeVars, appVars>>

-----------------------------------------------------------------------------
(* KeyToIDs and IDsToKey.  A Go string is a sequence of ASCII codes.        *)

\* The separator "." of a primary key.
Dot == 46

\* The characters of the strings the functions are applied to: the
\* separator and two hexadecimal digits.
StrChars == {Dot, 97, 98}

\* The strings of length n over StrChars.
StrOfLen(n) == [1..n -> StrChars]

\* The strings of at most n characters.
StrsUpTo(n) == UNION {StrOfLen(k) : k \in 0..n}

RECURSIVE IndexDot(_, _)
\* strings.Index(s[i-1:], "."), counted from the start of s: the 0-based
\* position of the first separator at or after the i-th character, or -1.
IndexDot(s, i) ==
    IF i > Len(s) THEN -1
    ELSE IF s[i] = Dot THEN i - 1
    ELSE IndexDot(s, i + 1)

\* strings.SplitN(key, ".", 2): the key cut at its first separator, or the
\* key alone when it has none.
SplitN(key) ==
    LET i == IndexDot(key, 1)
    IN  IF i < 0 THEN <<key>>
        ELSE <<SubSeq(key, 1, i), SubSeq(key, i + 2, Len(key))>>

\* KeyToIDs: ok = len(items) == 2.
KeyToIDs(key) ==
    LET items == SplitN(key)
    IN  IF Len(items) = 2
        THEN [suaid |-> items[1], schid |-> items[2], ok |-> TRUE]
        ELSE [suaid |-> <<>>, schid |-> <<>>, ok |-> FALSE]

\* IDsToKey: ok = len(suaid) > 0 && len(schid) > 0.
IDsToKey(suaid, schid) ==
    IF Len(suaid) > 0 /\ Len(schid) > 0
    THEN [key |-> suaid \o <<Dot>> \o schid, ok |-> TRUE]
    ELSE [key |-> <<>>, ok |-> FALSE]

\* The arguments of IDsToKey (two IDs) and of KeyToIDs (a key).
IDsInputs ==
    {[fn |-> "IDsToKey", in |-> <<u, c>>, out |-> <<>>] :
        u \in StrsUpTo(MaxStrLen), c \in StrsUpTo(MaxStrLen)}
    \cup {[fn |-> "KeyToIDs", in |-> <<k>>, out |-> <<>>] :
            k \in StrsUpTo(MaxStrLen + 1)}

EnvIDs ==
    [uaids |-> {UA}, chids |-> {CA}, versions |-> Versions,
     faults |-> {NoFaults}, keepPrev |-> FALSE, inputs |-> IDsInputs,
     callers |-> Callers, closers |-> Closers, ops |-> {}]

\* key, ok := IDsToKey(suaid, schid), then KeyToIDs(key).
ApplyIDsToKey ==
    /\ pure.fn = "IDsToKey"
    /\ pure.out = <<>>
    /\ LET r == IDsToKey(pure.in[1], pure.in[2])
       IN  pure' = [pure EXCEPT !.out = <<r, KeyToIDs(r.key)>>]
    /\ UNCHANGED <<mc, now, last, prev, env, race, poolVars, routeVars, appVars>>

\* suaid, schid, ok := KeyToIDs(key).
ApplyKeyToIDs ==
    /\ pure.fn = "KeyToIDs"
    /\ pure.out = <<>>
    /\ pure' = [pure EXCEPT !.out = <<KeyToIDs(pure.in[1])>>]
    /\ UNCHANGED <<mc, now, last, prev, env, race, poolVars, routeVars, appVars>>

-----------------------------------------------------------------------------
(* fetchAppIDArray applied to a stored list of channel IDs.  The list is    *)
(* whatever memcached holds under the device's key: the lists this store    *)
(* writes, and the lists left by other writers, which may hold a channel    *)
(* ID more than once.                                                       *)

\* A third channel ID.
CC == [i \in 1..16 |-> 221]

ArrChids == {CA, CB, CC}

\* The lists of at most MaxArrLen channel IDs.
StoredLists == UNION {[1..n -> ArrChids] : n \in 0..MaxArrLen}

ArrInputs ==
    {[fn |-> "fetchAppIDArray", in |-> <<arr>>, out |-> <<>>] : arr \in StoredLists}

EnvArr ==
    [uaids |-> {UA}, chids |-> ArrChids, versions |-> Versions,
     faults |-> {NoFaults}, keepPrev |-> FALSE, inputs |-> ArrInputs,
     callers |-> Callers, closers |-> Closers, ops |-> {}]

\* memcached holding the list arr under the key of the device uaid.
StoredList(uaid, arr) == [k \in {encodeKey(uaid)} |-> IaEntry(arr)]

\* result, err := s.fetchAppIDArray(uaid).
ApplyFetchAppIDArray ==
    /\ pure.fn = "fetchAppIDArray"
    /\ pure.out = <<>>
    /\ \E uaid \in env.uaids :
         pure' = [pure EXCEPT !.out =
                    <<fetchAppIDArray(StoredList(uaid, pure.in[1]), uaid, Ok)>>]
    /\ UNCHANGED <<mc, now, last, prev, env, race, poolVars, routeVars, appVars>>

-----------------------------------------------------------------------------
(* Update and Unregister called at the same time for one channel, by the   *)
(* endpoint handler and by the device's worker.  The store takes no lock:  *)
(* each call is a goroutine whose steps are its memcached calls, and the   *)
(* steps of the two interleave.  memcached answers every call.             *)

\* One channel of one device, for the calls that race.
EnvRace ==
    [uaids |-> {UA}, chids |-> {CA}, versions |-> Versions,
     faults |-> {NoFaults}, keepPrev |-> FALSE, inputs |-> {NoInput},
     callers |-> Callers, closers |-> Closers, ops |-> {}]

\* The channel is registered; then Update(uaid, chid, version) and
\* Unregister(uaid, chid) are called.
RaceStart ==
    /\ race = RaceIdle
    /\ \E uaid \in env.uaids, chid \in env.chids,
          v0 \in env.versions, version \in env.versions :
           LET r == RegisterOp(mc, now, uaid, chid, v0, NoFaults)
           IN  /\ mc' = r.mc
               /\ last' = OpRec("Register", uaid, chid, v0, r.err)
               /\ prev' = History
               /\ race' = [race EXCEPT
                     !.uaid = uaid, !.chid = chid,
                     !.upd = [Idle EXCEPT !.pc = "fetchRec", !.version = version],
                     !.unr = [Idle EXCEPT !.pc = "fetchAppIDArray"]]
    /\ UNCHANGED <<now, env, pure, poolVars, routeVars, appVars>>

\* Update: cRec, err := s.fetchRec(key), and the test of cRec.S.
UpdateFetchRec ==
    /\ race.upd.pc = "fetchRec"
    /\ LET fr == fetchRec(mc, toBinaryKey(race.uaid, race.chid), Ok)
       IN  race' = [race EXCEPT
               !.upd.rec = fr.rec,
               !.upd.pc = IF ~fr.isNil /\ fr.rec.S # DELETED
                          THEN "storeRec" ELSE "fetchAppIDArray"]
    /\ UNCHANGED <<mc, now, last, prev, env, pure, poolVars, routeVars, appVars>>

\* Update: s.storeRec(key, newRecord).
UpdateStoreRec ==
    /\ race.upd.pc = "storeRec"
    /\ mc' = storeRec(mc, now, toBinaryKey(race.uaid, race.chid),
                      newRecord(race.upd.version, now), Ok).mc
    /\ race' = [race EXCEPT !.upd.pc = "done"]
    /\ UNCHANGED <<now, last, prev, env, pure, poolVars, routeVars, appVars>>

\* Update calls Register: chids, err := s.fetchAppIDArray(uaid).
UpdateRegisterFetch ==
    /\ race.upd.pc = "fetchAppIDArray"
    /\ LET fa == fetchAppIDArray(mc, race.uaid, Ok)
       IN  race' = [race EXCEPT
               !.upd.chids = fa.result,
               !.upd.pc = IF IndexOf(fa.result, race.chid) < 0
                          THEN "storeAppIDArray" ELSE "registerRec"]
    /\ UNCHANGED <<mc, now, last, prev, env, pure, poolVars, routeVars, appVars>>

\* Register: s.storeAppIDArray(uaid, append(chids, chid)).
UpdateRegisterStoreArray ==
    /\ race.upd.pc = "storeAppIDArray"
    /\ mc' = storeAppIDArray(mc, race.uaid, Append(race.upd.chids, race.chid), Ok).mc
    /\ race' = [race EXCEPT !.upd.pc = "registerRec"]
    /\ UNCHANGED <<now, last, prev, env, pure, poolVars, routeVars, appVars>>

\* Register: s.storeRec(key, rec).
UpdateRegisterStoreRec ==
    /\ race.upd.pc = "registerRec"
    /\ mc' = storeRec(mc, now, toBinaryKey(race.uaid, race.chid),
                      registerRec(race.upd.version, now), Ok).mc
    /\ race' = [race EXCEPT !.upd.pc = "done"]
    /\ UNCHANGED <<now, last, prev, env, pure, poolVars, routeVars, appVars>>

\* Unregister: chids, err := s.fetchAppIDArray(uaid), and the test of pos.
UnregisterFetchArray ==
    /\ race.unr.pc = "fetchAppIDArray"
    /\ LET fa == fetchAppIDArray(mc, race.uaid, Ok)
       IN  race' = IF IndexOf(fa.result, race.chid) < 0
                   THEN [race EXCEPT !.unr.pc = "done",
                                     !.unr.err = InvalidChannelError]
                   ELSE [race EXCEPT !.unr.chids = fa.result,
                                     !.unr.pc = "storeAppIDArray"]
    /\ UNCHANGED <<mc, now, last, prev, env, pure, poolVars, routeVars, appVars>>

\* Unregister: s.storeAppIDArray(uaid, remove(chids, pos)).
UnregisterStoreArray ==
    /\ race.unr.pc = "storeAppIDArray"
    /\ mc' = storeAppIDArray(mc, race.uaid,
                 remove(race.unr.chids, IndexOf(race.unr.chids, race.chid)), Ok).mc
    /\ race' = [race EXCEPT !.unr.pc = "fetchRec"]
    /\ UNCHANGED <<now, last, prev, env, pure, poolVars, routeVars, appVars>>

\* Unregister: channel, err := s.fetchRec(key); it is answered, so the loop
\* makes one pass.
UnregisterFetchRec ==
    /\ race.unr.pc = "fetchRec"
    /\ race' = [race EXCEPT
           !.unr.rec = fetchRec(mc, toBinaryKey(race.uaid, race.chid), Ok).rec,
           !.unr.pc = "storeRec"]
    /\ UNCHANGED <<mc, now, last, prev, env, pure, poolVars, routeVars, appVars>>

\* Unregister: channel.S = DELETED; s.storeRec(key, channel).
UnregisterStoreRec ==
    /\ race.unr.pc = "storeRec"
    /\ mc' = storeRec(mc, now, toBinaryKey(race.uaid, race.chid),
                      [race.unr.rec EXCEPT !.S = DELETED], Ok).mc
    /\ race' = [race EXCEPT !.unr.pc = "done"]
    /\ UNCHANGED <<now, last, prev, env, pure, poolVars, routeVars, appVars>>

\* Once both calls have returned, Update is called again.
LaterUpdate ==
    /\ race.upd.pc = "done" /\ race.unr.pc = "done" /\ race.later.pc = "idle"
    /\ \E version \in env.versions :
           LET r == UpdateOp(mc, now, race.uaid, race.chid, version, NoFaults)
           IN  /\ mc' = r.mc
               /\ last' = OpRec("Update", race.uaid, race.chid, version, r.err)
               /\ prev' = History
               /\ race' = [race EXCEPT !.later.pc = "done",
                                       !.later.version = version,
                                       !.later.err = r.err]
    /\ UNCHANGED <<now, env, pure, poolVars, routeVars, appVars>>

-----------------------------------------------------------------------------
(* Register called at the same time as a Register or an Unregister of      *)
(* another channel of the device.  Each call is a goroutine whose steps    *)
(* are its memcached calls; memcached answers every call.                  *)

\* Two channels of one device, registered with or without a version.
EnvReg ==
    [uaids |-> {UA}, chids |-> {CA, CB}, versions |-> {0, MaxVersion},
     faults |-> {NoFaults}, keepPrev |-> FALSE, inputs |-> {NoInput},
     callers |-> Callers, closers |-> Closers, ops |-> {}]

\* Register(uaid, chid, version) is called, and at the same time either
\* Register(uaid, other, v) or, other being registered, Unregister(uaid,
\* other).
RegisterRaceStart ==
    /\ race = RaceIdle
    /\ \E uaid \in env.uaids, chid \in env.chids, other \in env.chids,
          version \in env.versions, v \in env.versions,
          call \in {"Register", "Unregister"} :
           /\ chid # other
           /\ mc' = IF call = "Unregister"
                    THEN RegisterOp(mc, now, uaid, other, v, NoFaults).mc
                    ELSE mc
           /\ race' = [race EXCEPT
                 !.uaid = uaid, !.chid = other,
                 !.regs[1] = [RegIdle EXCEPT !.pc = "fetchAppIDArray",
                                             !.chid = chid, !.version = version],
                 !.regs[2] = IF call = "Register"
                             THEN [RegIdle EXCEPT !.pc = "fetchAppIDArray",
                                                  !.chid = other, !.version = v]
                             ELSE RegIdle,
                 !.unr = IF call = "Unregister"
                         THEN [Idle EXCEPT !.pc = "fetchAppIDArray"]
                         ELSE Idle]
    /\ UNCHANGED <<now, last, prev, env, pure, poolVars, routeVars, appVars>>

\* Register: chids, err := s.fetchAppIDArray(uaid), and the test of
\* chids.IndexOf(chid).
RegisterFetchArray(g) ==
    /\ race.regs[g].pc = "fetchAppIDArray"
    /\ LET fa == fetchAppIDArray(mc, race.uaid, Ok)
       IN  race' = [race EXCEPT
               !.regs[g].chids = fa.result,
               !.regs[g].pc = IF IndexOf(fa.result, race.regs[g].chid) < 0
                              THEN "storeAppIDArray" ELSE "storeRec"]
    /\ UNCHANGED <<mc, now, last, prev, env, pure, poolVars, routeVars, appVars>>

\* Register: s.storeAppIDArray(uaid, append(chids, chid)).
RegisterStoreArray(g) ==
    /\ race.regs[g].pc = "storeAppIDArray"
    /\ mc' = storeAppIDArray(mc, race.uaid,
                 Append(race.regs[g].chids, race.regs[g].chid), Ok).mc
    /\ race' = [race EXCEPT !.regs[g].pc = "storeRec"]
    /\ UNCHANGED <<now, last, prev, env, pure, poolVars, routeVars, appVars>>

\* Register: s.storeRec(key, rec); return nil.
RegisterStoreRec(g) ==
    /\ race.regs[g].pc = "storeRec"
    /\ mc' = storeRec(mc, now, toBinaryKey(race.uaid, race.regs[g].chid),
                      registerRec(race.regs[g].version, now), Ok).mc
    /\ race' = [race EXCEPT !.regs[g].pc = "done", !.regs[g].err = Nil]
    /\ UNCHANGED <<now, last, prev, env, pure, poolVars, routeVars, appVars>>

-----------------------------------------------------------------------------
(* The routed-update receiver: main's updater, called by the router for    *)
(* every update another node posts to this node.                           *)

\* store.UpdateChannel(pk, vers), pk being the key of (uaid, chid): the
\* store's Update.
UpdateChannel(m, t, uaid, chid, vers, f) == UpdateOp(m, t, uaid, chid, vers, f)

\* simplepush.Flush(client, chid, version): a flush of (chid, version) is
\* queued for the client.
Flush(table, uaid, chid, version) ==
    [table EXCEPT ![uaid] = Append(@, [chid |-> chid, version |-> version])]

\* updater(update, logger, metrics): the store is updated, the client of
\* update.Uaid is flushed if this node has one, and nil is returned.
updater(m, t, table, uaid, chid, vers, f) ==
    LET r == UpdateChannel(m, t, uaid, chid, vers, f)
    IN  [mc |-> r.mc,
         Clients |-> IF uaid \in DOMAIN table
                     THEN Flush(table, uaid, chid, vers)
                     ELSE table,
         err |-> Nil]

\* Two devices with one channel each; a routed update carries a version
\* above 0.
EnvRoute ==
    [uaids |-> {UA, UB}, chids |-> {CA}, versions |-> {1, MaxVersion},
     faults |-> {NoFaults}, keepPrev |-> FALSE, inputs |-> {NoInput},
     callers |-> Callers, closers |-> Closers, ops |-> {}]

\* The router hands a routed update to updater.
Updater ==
    \E uaid \in env.uaids, chid \in env.chids, vers \in env.versions, f \in env.faults :
        LET r == updater(mc, now, Clients, uaid, chid, vers, f)
        IN  /\ uaid \in DOMAIN Clients => Len(Clients[uaid]) < MaxFlushes
            /\ mc' = r.mc
            /\ Clients' = r.Clients
            /\ last' = OpRec("updater", uaid, chid, vers, r.err)
            /\ prev' = History
            /\ UNCHANGED <<now, env, race, pure, poolVars, appVars>>

\* The client of a device connects to this node.
ClientConnect ==
    \E uaid \in env.uaids :
        /\ uaid \notin DOMAIN Clients
        /\ Clients' = [u \in DOMAIN Clients \cup {uaid} |->
                         IF u = uaid THEN <<>> ELSE Clients[u]]
        /\ last' = OpRec("ClientConnect", uaid, NoID, 0, Nil)
        /\ prev' = History
        /\ UNCHANGED <<mc, now, env, race, pure, poolVars, appVars>>

\* The client of a device disconnects.
ClientDisconnect ==
    \E uaid \in DOMAIN Clients :
        /\ Clients' = [u \in DOMAIN Clients \ {uaid} |-> Clients[u]]
        /\ last' = OpRec("ClientDisconnect", uaid, NoID, 0, Nil)
        /\ prev' = History
        /\ UNCHANGED <<mc, now, env, race, pure, poolVars, appVars>>

\* The first flush queued for a client is sent to it.
ClientFlushed ==
    \E uaid \in DOMAIN Clients :
        /\ Len(Clients[uaid]) > 0
        /\ Clients' = [Clients EXCEPT ![uaid] = Tail(@)]
        /\ last' = OpRec("ClientFlushed", uaid, NoID, 0, Nil)
        /\ prev' = History
        /\ UNCHANGED <<mc, now, env, race, pure, poolVars, appVars>>

-----------------------------------------------------------------------------
(* Application: the table of workers.  Every worker has a goroutine that   *)
(* handles its client's hello, which closes the worker installed for the   *)
(* device and calls AddWorker, and the close of a worker calls             *)
(* RemoveWorker; one goroutine calls Application.Close.  A step is a test  *)
(* of closeOnce, a critical section of workerMux or an atomic add.         *)

Workers == 1 .. NumWorkers

\* GetWorker: the worker installed for uaid, if any.
GetWorker(table, uaid) == IF uaid \in DOMAIN table THEN table[uaid] ELSE NoWorker

\* AddWorker: a.workers[uaid] = worker.
addWorker(table, uaid, w) ==
    [u \in DOMAIN table \cup {uaid} |-> IF u = uaid THEN w ELSE table[u]]

\* Variant: the entry of uaid is deleted whichever worker is installed.
removeWorkerAnyWorker(table, uaid, w) ==
    IF uaid \in DOMAIN table
    THEN [workers |-> [u \in DOMAIN table \ {uaid} |-> table[u]], removed |-> TRUE]
    ELSE [workers |-> table, removed |-> FALSE]

\* RemoveWorker: if prevWorker, ok := a.workers[uaid]; ok && prevWorker ==
\* worker { delete(a.workers, uaid); removed = true }.
removeWorker(table, uaid, w) ==
    IF uaid \in DOMAIN table /\ table[uaid] = w
    THEN [workers |-> [u \in DOMAIN table \ {uaid} |-> table[u]], removed |-> TRUE]
    ELSE [workers |-> table, removed |-> FALSE]

\* The close of the worker w begins, unless it has begun: it calls
\* RemoveWorker(uaid, w).
CloseWorker(gs, w) ==
    IF w # NoWorker /\ gs[w].rm = "idle"
    THEN [gs EXCEPT ![w].rm = "RemoveWorker"]
    ELSE gs

\* The client of w says hello for a device: the worker installed for the
\* device is closed, then w is registered with AddWorker.
Hello(w) ==
    /\ goroutines[w].pc = "new"
    /\ \E uaid \in env.uaids :
         LET prevWorker == GetWorker(workers, uaid)
         IN  goroutines' = CloseWorker(
                 [goroutines EXCEPT ![w].pc = "AddWorker", ![w].uaid = uaid,
                                    ![w].prev = prevWorker], prevWorker)
    /\ UNCHANGED <<workers, workerCount, closedWorkers, closeOnce, storeVars,
                   poolVars, routeVars>>

\* The worker w closes: its client has gone.
WorkerClose(w) ==
    /\ goroutines[w].pc = "live"
    /\ goroutines[w].rm = "idle"
    /\ goroutines' = CloseWorker(goroutines, w)
    /\ UNCHANGED <<workers, workerCount, closedWorkers, closeOnce, storeVars,
                   poolVars, routeVars>>

\* AddWorker: if a.closeOnce.IsDone() { worker.Close(); return }.  The close
\* of the previous worker has returned.
AddWorkerIsDone(w) ==
    /\ goroutines[w].pc = "AddWorker"
    /\ goroutines[w].prev # NoWorker => goroutines[goroutines[w].prev].rm = "gone"
    /\ IF closeOnce.done
       THEN /\ closedWorkers' = closedWorkers \cup {w}
            /\ goroutines' = [goroutines EXCEPT ![w].pc = "live"]
       ELSE /\ goroutines' = [goroutines EXCEPT ![w].pc = "AddWorker lock"]
            /\ UNCHANGED closedWorkers
    /\ UNCHANGED <<workers, workerCount, closeOnce, storeVars, poolVars, routeVars>>

\* AddWorker: a.workerMux.Lock(); a.workers[uaid] = worker; Unlock().
AddWorkerLocked(w) ==
    /\ goroutines[w].pc = "AddWorker lock"
    /\ workers' = addWorker(workers, goroutines[w].uaid, w)
    /\ goroutines' = [goroutines EXCEPT ![w].pc = "AddWorker count"]
    /\ UNCHANGED <<workerCount, closedWorkers, closeOnce, storeVars, poolVars, routeVars>>

\* AddWorker: atomic.AddInt32(&a.workerCount, 1).
AddWorkerCount(w) ==
    /\ goroutines[w].pc = "AddWorker count"
    /\ workerCount' = workerCount + 1
    /\ goroutines' = [goroutines EXCEPT ![w].pc = "live"]
    /\ UNCHANGED <<workers, closedWorkers, closeOnce, storeVars, poolVars, routeVars>>

\* RemoveWorker: if a.closeOnce.IsDone() { return }.
RemoveWorkerIsDone(w) ==
    /\ goroutines[w].rm = "RemoveWorker"
    /\ goroutines' = [goroutines EXCEPT
                        ![w].rm = IF closeOnce.done THEN "gone" ELSE "RemoveWorker lock"]
    /\ UNCHANGED <<workers, workerCount, closedWorkers, closeOnce, storeVars,
                   poolVars, routeVars>>

\* RemoveWorker: the critical section of a.workerMux.
RemoveWorkerLocked(w) ==
    /\ goroutines[w].rm = "RemoveWorker lock"
    /\ LET r == removeWorker(workers, goroutines[w].uaid, w)
       IN  /\ workers' = r.workers
           /\ goroutines' = [goroutines EXCEPT
                               ![w].rm = IF r.removed THEN "RemoveWorker count" ELSE "gone",
                               ![w].removed = r.removed]
    /\ UNCHANGED <<workerCount, closedWorkers, closeOnce, storeVars, poolVars, routeVars>>

\* RemoveWorker: if removed { atomic.AddInt32(&a.workerCount, -1) }.
RemoveWorkerCount(w) ==
    /\ goroutines[w].rm = "RemoveWorker count"
    /\ workerCount' = workerCount - 1
    /\ goroutines' = [goroutines EXCEPT ![w].rm = "gone"]
    /\ UNCHANGED <<workers, closedWorkers, closeOnce, storeVars, poolVars, routeVars>>

\* Close: a.closeOnce.Do(a.close) starts a.close.
AppClose ==
    /\ closeOnce.pc = "idle"
    /\ ~closeOnce.done
    /\ closeOnce' = [closeOnce EXCEPT !.pc = "close"]
    /\ UNCHANGED <<workers, workerCount, closedWorkers, goroutines, storeVars,
                   poolVars, routeVars>>

\* close: a.closeWorkers() deletes every entry and closes its worker, under
\* a.workerMux.
closeWorkers ==
    /\ closeOnce.pc = "close"
    /\ workers' = [u \in {} |-> NoWorker]
    /\ closedWorkers' = closedWorkers \cup {workers[u] : u \in DOMAIN workers}
    /\ closeOnce' = [closeOnce EXCEPT !.pc = "closed workers"]
    /\ UNCHANGED <<workerCount, goroutines, storeVars, poolVars, routeVars>>

\* Close: a.close has returned, closeOnce is done and Close returns.
AppCloseReturn ==
    /\ closeOnce.pc = "closed workers"
    /\ closeOnce' = [done |-> TRUE, pc |-> "returned"]
    /\ UNCHANGED <<workers, workerCount, closedWorkers, goroutines, storeVars,
                   poolVars, routeVars>>

-----------------------------------------------------------------------------
(* The connection pool: the run loop, Init, getClient, releaseClient,      *)
(* Close.  The channels are unbuffered, so a send and the run loop's       *)
(* receive with its handler are one step.  lastGet is the getClient call   *)
(* that returned last: its caller, the connection and the error it         *)
(* returned, and the case of getClient's select that was taken (via).      *)

ErrEOF == "EOF"
ErrConnect == "CONNECTION FAILURE"

\* run(): capacity >= s.config.MaxConns, the pool accepts no connection.
AtMax(cap) == cap >= MaxConns

\* Variant: the bound is tested with <= .
HasRoomOffByOne(cap) == cap <= MaxConns

\* run(): capacity < s.config.MaxConns, a new connection may be opened.
HasRoom(cap) == cap < MaxConns

\* Variant: the channel is closed without the test of isClosing.
signalCloseUnguarded(st) ==
    [st EXCEPT !.closeSignal = TRUE, !.closeCount = @ + 1, !.isClosing = TRUE]

\* signalClose: closes the pool unless it is already closing.
signalClose(st) ==
    IF st.isClosing THEN st
    ELSE [st EXCEPT !.closeSignal = TRUE, !.closeCount = @ + 1, !.isClosing = TRUE]

\* fatal(err): signalClose, then record the first error.
fatal(st, err) ==
    LET c == signalClose(st)
    IN  [c EXCEPT !.lastErr = IF @ = Nil THEN err ELSE @]

CloseState == [closeSignal |-> closeSignal, closeCount |-> closeCount,
               isClosing |-> isClosing, lastErr |-> lastErr]

SetCloseState(st) ==
    /\ closeSignal' = st.closeSignal
    /\ closeCount' = st.closeCount
    /\ isClosing' = st.isClosing
    /\ lastErr' = st.lastErr

\* The caller p calls the pool directly, or the function of the store
\* operation it runs has reached this call.
MayCall(p, call) ==
    \/ callers[p].op = "pool"
    \/ callers[p].todo # <<>> /\ Head(callers[p].todo) = call

\* The calls still to make once the first has been made.
Called(todo) == IF todo = <<>> THEN todo ELSE Tail(todo)

\* What getClient returns to the caller p.
GetRec(p, client, err, via) ==
    [caller |-> p, client |-> client, err |-> err, via |-> via]

\* getClient() ... defer s.releaseClient(client): the pool calls of a
\* function that makes the calls of inner while it holds its connection.
WithClient(inner) == <<"getClient">> \o inner \o <<"releaseClient">>

\* Variant: storeHost acquires a connection of its own.
storeHostOwnClient == WithClient(<<>>)

\* storeHost(client, uaid, host) uses the connection of its caller.
storeHostPoolCalls == <<>>

\* The pool calls of one function of the store, in order.  FetchHost calls
\* storeHost while it holds its connection; the other functions make no
\* call while they hold theirs.
poolCalls(fn) ==
    IF fn = "FetchHost" THEN WithClient(storeHostPoolCalls) ELSE WithClient(<<>>)

\* The functions with pool calls that a store operation runs one after the
\* other when none of them fails; a name of the operation itself stands for
\* the getClient of its own body.
StoreOpFns(op) ==
    LET register == {<<"fetchAppIDArray", "storeAppIDArray", "storeRec">>,
                     <<"fetchAppIDArray", "storeRec">>}
        deleted == {<<"fetchRec", "storeRec">>, <<"fetchRec", "fetchRec", "storeRec">>,
                    <<"fetchRec", "fetchRec", "fetchRec", "storeRec">>,
                    <<"fetchRec", "fetchRec", "fetchRec">>}
    IN  CASE op = "Exists" -> {<<"fetchAppIDArray">>}
          [] op = "Register" -> register
          [] op = "Update" -> {<<"fetchRec", "storeRec">>}
                                \cup {<<"fetchRec">> \o r : r \in register}
          [] op = "Unregister" ->
                {<<"fetchAppIDArray", "storeAppIDArray">> \o d : d \in deleted}
          [] op \in {"FetchAll", "DropAll"} -> {<<"fetchAppIDArray", op>>}
          [] OTHER -> {<<op>>}

\* A caller starts a store operation.
StoreOpCall(p) ==
    /\ callers[p].op = "none"
    /\ \E op \in env.ops : \E fns \in StoreOpFns(op) :
         callers' = [callers EXCEPT ![p].op = op, ![p].fns = fns]
    /\ UNCHANGED <<clients, capacity, loop, closeSignal, closeCount, isClosing,
                   lastErr, conns, seeder, closers, lastGet, storeVars, routeVars, appVars>>

\* The store operation calls its next function.
StoreOpFn(p) ==
    /\ callers[p].op \notin {"none", "pool"}
    /\ callers[p].todo = <<>>
    /\ callers[p].pc # "releasing"
    /\ callers[p].fns # <<>>
    /\ callers' = [callers EXCEPT ![p].todo = poolCalls(Head(callers[p].fns)),
                                  ![p].fns = Tail(@)]
    /\ UNCHANGED <<clients, capacity, loop, closeSignal, closeCount, isClosing,
                   lastErr, conns, seeder, closers, lastGet, storeVars, routeVars, appVars>>

\* The store operation returns: its last function has returned, or a function
\* has returned an error.
StoreOpReturn(p) ==
    /\ callers[p].op \notin {"none", "pool"}
    /\ callers[p].todo = <<>>
    /\ callers[p].pc # "releasing"
    /\ callers' = [callers EXCEPT ![p].op = "none", ![p].fns = <<>>]
    /\ UNCHANGED <<clients, capacity, loop, closeSignal, closeCount, isClosing,
                   lastErr, conns, seeder, closers, lastGet, storeVars, routeVars, appVars>>

\* Init: newClient() for the next seed connection succeeds or fails.
InitNewClient ==
    /\ seeder.pc = "new"
    /\ \E ok \in BOOLEAN :
        IF ok
        THEN /\ conns' = Append(conns, "open")
             /\ seeder' = [seeder EXCEPT !.pc = "send", !.client = Len(conns) + 1]
             /\ UNCHANGED <<closeSignal, closeCount, isClosing, lastErr>>
        ELSE /\ SetCloseState(fatal(CloseState, ErrConnect))
             /\ seeder' = [seeder EXCEPT !.pc = "failed", !.err = ErrConnect]
             /\ UNCHANGED conns
    /\ UNCHANGED <<clients, capacity, loop, callers, closers, lastGet, storeVars, routeVars, appVars>>

\* run(): case client := <-s.clients, fed by Init's "s.clients <- client".
RunClients ==
    /\ loop = "running"
    /\ seeder.pc = "send"
    /\ IF AtMax(capacity)
       THEN /\ conns' = [conns EXCEPT ![seeder.client] = "closed"]
            /\ UNCHANGED <<clients, capacity>>
       ELSE /\ clients' = Append(clients, seeder.client)
            /\ capacity' = capacity + 1
            /\ UNCHANGED conns
    /\ seeder' = [seeder EXCEPT
                    !.pc = IF seeder.index + 1 < MinConns THEN "new" ELSE "done",
                    !.index = @ + 1, !.client = 0]
    /\ UNCHANGED <<loop, closeSignal, closeCount, isClosing, lastErr, callers,
                   closers, lastGet, storeVars, routeVars, appVars>>

\* getClient: case <-s.closeSignal.
GetClientClosed(p) ==
    /\ callers[p].pc = "idle"
    /\ MayCall(p, "getClient")
    /\ closeSignal
    /\ lastGet' = GetRec(p, 0, ErrEOF, "closeSignal")
    /\ callers' = [callers EXCEPT ![p].todo = <<>>]
    /\ UNCHANGED <<clients, capacity, loop, closeSignal, closeCount, isClosing,
                   lastErr, conns, seeder, closers, storeVars, routeVars, appVars>>

\* getClient: case <-time.After(s.config.PoolTimeout).
GetClientTimeout(p) ==
    /\ callers[p].pc = "idle"
    /\ MayCall(p, "getClient")
    /\ ~closeSignal
    /\ lastGet' = GetRec(p, 0, ErrPoolSaturated, "timeout")
    /\ callers' = [callers EXCEPT ![p].todo = <<>>]
    /\ UNCHANGED <<clients, capacity, loop, closeSignal, closeCount, isClosing,
                   lastErr, conns, seeder, closers, storeVars, routeVars, appVars>>

\* getClient: case s.acquisitions <- freeClients, with run()'s
\* case acquisition := <-s.acquisitions and its reply.
RunAcquisition(p) ==
    /\ callers[p].pc = "idle"
    /\ MayCall(p, "getClient")
    /\ loop = "running"
    /\ IF Len(clients) > 0
       THEN /\ clients' = Tail(clients)
            /\ callers' = [callers EXCEPT ![p].pc = "holding",
                                           ![p].client = Head(clients),
                                           ![p].todo = Called(@)]
            /\ lastGet' = GetRec(p, Head(clients), Nil, "acquisitions")
            /\ UNCHANGED <<capacity, conns, closeSignal, closeCount, isClosing, lastErr>>
       ELSE IF HasRoom(capacity)
       THEN \E ok \in BOOLEAN :
              IF ok
              THEN /\ conns' = Append(conns, "open")
                   /\ capacity' = capacity + 1
                   /\ callers' = [callers EXCEPT ![p].pc = "holding",
                                                  ![p].client = Len(conns) + 1,
                                                  ![p].todo = Called(@)]
                   /\ lastGet' = GetRec(p, Len(conns) + 1, Nil, "acquisitions")
                   /\ UNCHANGED <<clients, closeSignal, closeCount, isClosing, lastErr>>
              ELSE /\ SetCloseState(fatal(CloseState, ErrConnect))
                   /\ lastGet' = GetRec(p, 0, ErrPoolSaturated, "acquisitions")
                   /\ callers' = [callers EXCEPT ![p].todo = <<>>]
                   /\ UNCHANGED <<clients, capacity, conns>>
       ELSE /\ lastGet' = GetRec(p, 0, ErrPoolSaturated, "acquisitions")
            /\ callers' = [callers EXCEPT ![p].todo = <<>>]
            /\ UNCHANGED <<clients, capacity, conns, closeSignal,
                           closeCount, isClosing, lastErr>>
    /\ UNCHANGED <<loop, seeder, closers, storeVars, routeVars, appVars>>

\* releaseClient: the caller reaches "client.releases <- client".
ReleaseClient(p) ==
    /\ callers[p].pc = "holding"
    /\ MayCall(p, "releaseClient")
    /\ callers' = [callers EXCEPT ![p].pc = "releasing", ![p].todo = Called(@)]
    /\ UNCHANGED <<clients, capacity, loop, closeSignal, closeCount, isClosing,
                   lastErr, conns, seeder, closers, lastGet, storeVars, routeVars, appVars>>

\* run(): case freeClient := <-s.releases.
RunReleases(p) ==
    /\ loop = "running"
    /\ callers[p].pc = "releasing"
    /\ IF AtMax(capacity)
       THEN /\ conns' = [conns EXCEPT ![callers[p].client] = "closed"]
            /\ UNCHANGED clients
       ELSE /\ clients' = Append(clients, callers[p].client)
            /\ UNCHANGED conns
    /\ callers' = [callers EXCEPT ![p].pc = "idle", ![p].client = 0]
    /\ UNCHANGED <<capacity, loop, closeSignal, closeCount, isClosing, lastErr,
                   seeder, closers, lastGet, storeVars, routeVars, appVars>>

\* run(): case ok = <-s.closeSignal; the loop ends and the idle connections
\* are closed.
RunClose ==
    /\ loop = "running"
    /\ closeSignal
    /\ loop' = "exited"
    /\ conns' = [c \in DOMAIN conns |->
                   IF c \in Range(clients) THEN "closed" ELSE conns[c]]
    /\ UNCHANGED <<clients, capacity, closeSignal, closeCount, isClosing, lastErr,
                   seeder, callers, closers, lastGet, storeVars, routeVars, appVars>>

\* Close: stop().
CloseStop(q) ==
    /\ closers[q].pc = "idle"
    /\ IF isClosing
       THEN /\ closers' = [closers EXCEPT ![q] = [pc |-> "returned", err |-> lastErr]]
            /\ UNCHANGED <<closeSignal, closeCount, isClosing, lastErr>>
       ELSE /\ SetCloseState(signalClose(CloseState))
            /\ closers' = [closers EXCEPT ![q] = [pc |-> "waiting", err |-> Nil]]
    /\ UNCHANGED <<clients, capacity, loop, conns, seeder, callers, lastGet, storeVars, routeVars, appVars>>

\* Close: s.closeWait.Wait() returns once run() has ended.
CloseWait(q) ==
    /\ closers[q].pc = "waiting"
    /\ loop = "exited"
    /\ closers' = [closers EXCEPT ![q].pc = "returned"]
    /\ UNCHANGED <<clients, capacity, loop, closeSignal, closeCount, isClosing,
                   lastErr, conns, seeder, callers, lastGet, storeVars, routeVars, appVars>>

Init == InitWith(EnvStore)

SeqInit == InitWith(EnvSeq)

Next ==
    \/ Exists
    \/ Register
    \/ Update
    \/ Unregister
    \/ Drop
    \/ FetchAll
    \/ DropAll
    \/ PutHost
    \/ Expire
    \/ Tick

Spec == Init /\ [][Next]_vars

SpecSeq == SeqInit /\ [][Next]_vars

\* The operations that write channel records and DeviceSets, one after the
\* other, while records expire and the clock advances.
WritesNext ==
    \/ Register
    \/ Update
    \/ Unregister
    \/ Drop
    \/ DropAll
    \/ Expire
    \/ Tick

SpecWrites == Init /\ [][WritesNext]_vars

FaultInit == InitWith(EnvFault)

SpecFault == FaultInit /\ [][Next]_vars

KeyInit == InitWith(EnvKey)

KeyNext == ApplyToBinaryKey

SpecKey == KeyInit /\ [][KeyNext]_vars

IDsInit == InitWith(EnvIDs)

IDsNext ==
    \/ ApplyIDsToKey
    \/ ApplyKeyToIDs

SpecIDs == IDsInit /\ [][IDsNext]_vars

ArrInit == InitWith(EnvArr)

ArrNext == ApplyFetchAppIDArray

SpecArr == ArrInit /\ [][ArrNext]_vars

RaceInit == InitWith(EnvRace)

RaceNext ==
    \/ RaceStart
    \/ UpdateFetchRec
    \/ UpdateStoreRec
    \/ UpdateRegisterFetch
    \/ UpdateRegisterStoreArray
    \/ UpdateRegisterStoreRec
    \/ UnregisterFetchArray
    \/ UnregisterStoreArray
    \/ UnregisterFetchRec
    \/ UnregisterStoreRec
    \/ LaterUpdate
    \/ Tick

SpecRace == RaceInit /\ [][RaceNext]_vars

RegInit == InitWith(EnvReg)

RegNext ==
    \/ RegisterRaceStart
    \/ \E g \in {1, 2} : RegisterFetchArray(g)
    \/ \E g \in {1, 2} : RegisterStoreArray(g)
    \/ \E g \in {1, 2} : RegisterStoreRec(g)
    \/ UnregisterFetchArray
    \/ UnregisterStoreArray
    \/ UnregisterFetchRec
    \/ UnregisterStoreRec
    \/ Tick

SpecReg == RegInit /\ [][RegNext]_vars

PoolNext ==
    \/ InitNewClient
    \/ RunClients
    \/ \E p \in env.callers : GetClientClosed(p)
    \/ \E p \in env.callers : GetClientTimeout(p)
    \/ \E p \in env.callers : RunAcquisition(p)
    \/ \E p \in env.callers : ReleaseClient(p)
    \/ \E p \in env.callers : RunReleases(p)
    \/ RunClose
    \/ \E q \in env.closers : CloseStop(q)
    \/ \E q \in env.closers : CloseWait(q)

SpecPool == Init /\ [][PoolNext]_vars

\* Two callers run Register and FetchHost while the pool is used and closed.
EnvConn ==
    [uaids |-> {UA}, chids |-> {CA}, versions |-> Versions,
     faults |-> {NoFaults}, keepPrev |-> FALSE, inputs |-> {NoInput},
     callers |-> {1, NumCallers}, closers |-> {NumClosers},
     ops |-> {"Register", "FetchHost"}]

ConnInit == InitWith(EnvConn)

ConnNext ==
    \/ InitNewClient
    \/ RunClients
    \/ \E p \in env.callers : StoreOpCall(p)
    \/ \E p \in env.callers : StoreOpFn(p)
    \/ \E p \in env.callers : StoreOpReturn(p)
    \/ \E p \in env.callers : GetClientClosed(p)
    \/ \E p \in env.callers : GetClientTimeout(p)
    \/ \E p \in env.callers : RunAcquisition(p)
    \/ \E p \in env.callers : ReleaseClient(p)
    \/ \E p \in env.callers : RunReleases(p)
    \/ RunClose
    \/ \E q \in env.closers : CloseStop(q)
    \/ \E q \in env.closers : CloseWait(q)

SpecConn == ConnInit /\ [][ConnNext]_vars

RouteInit == InitWith(EnvRoute)

\* The node that receives the routed updates also serves the updates that
\* are posted to it directly (Update).
RouteNext ==
    \/ Updater
    \/ Update
    \/ ClientConnect
    \/ ClientDisconnect
    \/ ClientFlushed
    \/ Tick

SpecRoute == RouteInit /\ [][RouteNext]_vars

AppInit == InitWith(EnvRoute)

AppNext ==
    \/ \E w \in Workers : Hello(w)
    \/ \E w \in Workers : WorkerClose(w)
    \/ \E w \in Workers : AddWorkerIsDone(w)
    \/ \E w \in Workers : AddWorkerLocked(w)
    \/ \E w \in Workers : AddWorkerCount(w)
    \/ \E w \in Workers : RemoveWorkerIsDone(w)
    \/ \E w \in Workers : RemoveWorkerLocked(w)
    \/ \E w \in Workers : RemoveWorkerCount(w)
    \/ AppClose
    \/ closeWorkers
    \/ AppCloseReturn

SpecApp == AppInit /\ [][AppNext]_vars

\* The run loop is a goroutine of its own and its select takes one of the
\* ready cases at random: a case that stays ready is taken in the end.  The
\* case of s.closeSignal is ready from close(s.closeSignal) on, and the case
\* of s.releases while a caller is blocked in releaseClient.
PoolFairness ==
    /\ WF_vars(RunClose)
    /\ \A p \in Callers : WF_vars(RunReleases(p))

\* Two of the callers use the pool while it is closed.
EnvLive ==
    [uaids |-> {UA}, chids |-> {CA}, versions |-> Versions,
     faults |-> {NoFaults}, keepPrev |-> FALSE, inputs |-> {NoInput},
     callers |-> {1, NumCallers}, closers |-> Closers, ops |-> {}]

LiveInit == InitWith(EnvLive)

SpecPoolLive == LiveInit /\ [][PoolNext]_vars /\ PoolFairness

-----------------------------------------------------------------------------
(* Properties. *)

\* The callers that hold a connection (a caller blocked in releaseClient
\* still holds its connection).
InUse == {p \in Callers : callers[p].pc \in {"holding", "releasing"}}

RecKey(uaid, chid) == encodeKey(toBinaryKey(uaid, chid))

Stored(uaid, chid) == RecKey(uaid, chid) \in DOMAIN mc

\* The stored list of channel IDs of a device; empty when the key is absent.
DeviceSet(uaid) ==
    IF encodeKey(uaid) \in DOMAIN mc THEN mc[encodeKey(uaid)].arr ELSE <<>>

UpdateEntry(chid, version) ==
    [ChannelID |-> HexEncode(chid), Version |-> uint64(version)]

\* C1: in every reachable state of the pool at most MaxConns connections
\* are held by callers and at most MaxConns connections are idle.
C1_PoolBounded ==
    /\ Cardinality(InUse) <= MaxConns
    /\ Len(clients) <= MaxConns

\* MaxConns connections are in use at once and the pool is at its maximum.
C1_Witness ==
    /\ Cardinality(InUse) = MaxConns
    /\ capacity = MaxConns
    /\ \A p \in InUse : conns[callers[p].client] = "open"

\* C2: after Register(u,c,0) followed directly by Update(u,c,v), v > 0, both
\* returning nil, FetchAll(u, time 0).updates contains {chid=c, version=v}.
C2_RegisterUpdateFetch ==
    \A uaid \in env.uaids, chid \in env.chids, version \in env.versions :
        ( /\ version > 0
          /\ prev = OpRec("Register", uaid, chid, 0, Nil)
          /\ last = OpRec("Update", uaid, chid, version, Nil) )
        => UpdateEntry(chid, version) \in
               Range(FetchAllOp(mc, now, uaid, 0, NoFaults).updates)

C2_Witness ==
    /\ prev = OpRec("Register", UA, CA, 0, Nil)
    /\ last = OpRec("Update", UA, CA, 1, Nil)
    /\ FetchAllOp(mc, now, UA, 0, NoFaults).updates = <<UpdateEntry(CA, 1)>>

\* C3: Update is last-writer-wins: after Update(u,c,v1) directly followed by
\* Update(u,c,v2) the second Update returns nil and the stored version is
\* v2, whether v1 < v2 or v1 >= v2.
C3_LastWriterWins ==
    \A uaid \in env.uaids, chid \in env.chids, v1 \in env.versions :
        ( /\ prev = OpRec("Update", uaid, chid, v1, Nil)
          /\ last.op = "Update" /\ last.uaid = uaid /\ last.chid = chid )
        => /\ last.err = Nil
           /\ Stored(uaid, chid)
           /\ mc[RecKey(uaid, chid)].t = "cr"
           /\ mc[RecKey(uaid, chid)].V = uint64(last.version)

\* An Update with a lower version directly after one with a higher version.
C3_Witness ==
    /\ prev = OpRec("Update", UA, CA, 2, Nil)
    /\ last = OpRec("Update", UA, CA, 1, Nil)
    /\ mc[RecKey(UA, CA)].V = uint64(1)
    /\ mc[RecKey(UA, CA)].S = LIVE

\* C4: Unregister(u,c) followed directly by Register(u,c,v), v > 0, leaves
\* the record of (u,c) LIVE with version v and c in DeviceSet(u).
C4_ReRegister ==
    \A uaid \in env.uaids, chid \in env.chids, version \in env.versions :
        ( /\ version > 0
          /\ prev.op = "Unregister" /\ prev.uaid = uaid /\ prev.chid = chid
          /\ last = OpRec("Register", uaid, chid, version, Nil) )
        => /\ Stored(uaid, chid)
           /\ mc[RecKey(uaid, chid)].S = LIVE
           /\ mc[RecKey(uaid, chid)].V = uint64(version)
           /\ chid \in Range(DeviceSet(uaid))

C4_Witness ==
    /\ prev = OpRec("Unregister", UA, CA, 0, Nil)
    /\ last = OpRec("Register", UA, CA, 2, Nil)
    /\ mc[RecKey(UA, CA)].S = LIVE
    /\ DeviceSet(UA) = <<CA>>

\* C5: after DropAll(u) returns nil, Exists(u) is false, FetchAll(u, time 0)
\* returns no updates and no expired channels, and the host mapping of u is
\* absent.
C5_DropAllLeavesNothing ==
    (last.op = "DropAll" /\ last.err = Nil)
    => /\ ~ExistsOp(mc, last.uaid, NoFaults)
       /\ FetchAllOp(mc, now, last.uaid, 0, NoFaults).updates = <<>>
       /\ FetchAllOp(mc, now, last.uaid, 0, NoFaults).expired = <<>>
       /\ HostKey(last.uaid) \notin DOMAIN mc

\* C6: Exists(u) returns true exactly when the DeviceSet key of u is present
\* in the backing store.
C6_ExistsIffDeviceSet ==
    last.op = "Exists" => (last.exists <=> encodeKey(last.uaid) \in DOMAIN mc)

\* C7: every stored channel record whose state is LIVE has version > 0.
C7_LiveHasVersion ==
    \A key \in DOMAIN mc :
        (mc[key].t = "cr" /\ mc[key].S = LIVE) => mc[key].V # Zero64

\* The number of occurrences of chid in the list chids.
Occurrences(chids, chid) == Cardinality({i \in 1..Len(chids) : chids[i] = chid})

\* C9: after Register(u,c,v) returns nil, c occurs exactly once in
\* DeviceSet(u) and the record of (u,c) is {LIVE, v} if v > 0, otherwise
\* {REGISTERED, 0}.
C9_RegisterPost ==
    \A uaid \in env.uaids, chid \in env.chids, version \in env.versions :
        (Len(uaid) > 0 /\ last = OpRec("Register", uaid, chid, version, Nil))
        => /\ Occurrences(DeviceSet(uaid), chid) = 1
           /\ Stored(uaid, chid)
           /\ mc[RecKey(uaid, chid)].S = IF version > 0 THEN LIVE ELSE REGISTERED
           /\ mc[RecKey(uaid, chid)].V = IF version > 0 THEN uint64(version) ELSE Zero64

\* The state of a record that is not in the store.
Absent == DELETED - 1

\* The state of the record of (uaid, chid) in the store m.
StateIn(m, uaid, chid) ==
    IF RecKey(uaid, chid) \in DOMAIN m THEN m[RecKey(uaid, chid)].S ELSE Absent

\* The list of channel IDs of a device in the store m.
DeviceSetIn(m, uaid) ==
    IF encodeKey(uaid) \in DOMAIN m THEN m[encodeKey(uaid)].arr ELSE <<>>

\* The changes of a record's state that the lifecycle diagram names, for a
\* step of the operation op.
DiagramChange(old, new, op) ==
    \/ old = Absent /\ new \in {REGISTERED, LIVE} /\ op \in {"Register", "Update"}
    \/ old = REGISTERED /\ new = LIVE /\ op \in {"Register", "Update"}
    \/ old = LIVE /\ new = DELETED /\ op = "Unregister"
    \/ old = DELETED /\ new \in {REGISTERED, LIVE} /\ op \in {"Register", "Update"}
    \/ new = Absent /\ op \in {"Drop", "DropAll", "Expire"}

\* C8 as stated: every change of a record's state made by a store operation
\* follows the lifecycle diagram () -> REGISTERED -> LIVE -> DELETED -> (),
\* with re-registration after DELETED.
C8_Lifecycle ==
    [][\A uaid \in env.uaids, chid \in env.chids :
         StateIn(mc', uaid, chid) # StateIn(mc, uaid, chid)
         => DiagramChange(StateIn(mc, uaid, chid), StateIn(mc', uaid, chid), last'.op)]_vars

\* C8, amended: the changes of the diagram, and also: Unregister marks a
\* REGISTERED or an absent record DELETED, and Register with version 0 turns
\* a LIVE record REGISTERED.  A record that is created or re-registered has
\* its channel ID in the DeviceSet, and an operation changes the state of
\* no record but those of its own arguments.
C8_LifecycleAmended ==
    [][\A uaid \in env.uaids, chid \in env.chids :
         LET old == StateIn(mc, uaid, chid)
             new == StateIn(mc', uaid, chid)
         IN  old # new
             => /\ \/ DiagramChange(old, new, last'.op)
                   \/ old \in {Absent, REGISTERED} /\ new = DELETED
                      /\ last'.op = "Unregister"
                   \/ old = LIVE /\ new = REGISTERED
                      /\ last'.op = "Register" /\ last'.version = 0
                /\ (old \in {Absent, DELETED} /\ new \in {REGISTERED, LIVE})
                   => chid \in Range(DeviceSetIn(mc', uaid))
                /\ last'.op # "Expire" => last'.uaid = uaid
                /\ last'.op \notin {"DropAll", "Expire"} => last'.chid = chid
                /\ last'.op = "Expire" => mc[RecKey(uaid, chid)].ttl > 0]_vars

\* Unregister has marked a record DELETED that Register(u,c,0) had left
\* REGISTERED.
C8_Witness ==
    /\ prev = OpRec("Register", UA, CA, 0, Nil)
    /\ last = OpRec("Unregister", UA, CA, 0, Nil)
    /\ StateIn(mc, UA, CA) = DELETED

\* C10: Update(u,c,v) on a channel whose record is absent or DELETED has the
\* result and the effect of Register(u,c,v); on any other record it returns
\* nil, writes {LIVE, v, now} and changes nothing else in the store.
C10_UpdateFallsThrough ==
    [][(last'.op = "Update" /\ now' = now)
       => LET uaid == last'.uaid
              chid == last'.chid
              key == RecKey(uaid, chid)
              reg == RegisterOp(mc, now, uaid, chid, last'.version, NoFaults)
          IN  IF StateIn(mc, uaid, chid) \in {Absent, DELETED}
              THEN mc' = reg.mc /\ last'.err = reg.err
              ELSE /\ last'.err = Nil
                   /\ DOMAIN mc' = DOMAIN mc
                   /\ \A k \in DOMAIN mc \ {key} : mc'[k] = mc[k]
                   /\ RecOf(mc'[key]) =
                        [S |-> LIVE, V |-> uint64(last'.version), L |-> now]]_vars

\* Update has re-created the record that Unregister had marked DELETED and
\* has put the channel ID back into the DeviceSet.
C10_Witness ==
    /\ prev = OpRec("Unregister", UA, CA, 0, Nil)
    /\ last = OpRec("Update", UA, CA, 1, Nil)
    /\ StateIn(mc, UA, CA) = LIVE
    /\ DeviceSet(UA) = <<CA>>

\* The channels of a device that FetchAll(uaid, since) is to report as
\* updates: those of the DeviceSet whose record is LIVE and was last touched
\* at or after since.
LiveSince(uaid, since) ==
    {chid \in Range(DeviceSet(uaid)) :
        /\ Stored(uaid, chid)
        /\ mc[RecKey(uaid, chid)].S = LIVE
        /\ mc[RecKey(uaid, chid)].L >= since}

\* C11: the updates of FetchAll(u, since) are exactly the entries
\* {c, stored version of (u,c)} of the channels c of DeviceSet(u) whose
\* record is LIVE with lastTouched >= since, each once.
C11_FetchAllUpdates ==
    (last.op = "FetchAll" /\ last.err = Nil)
    => /\ Range(last.updates) =
            {[ChannelID |-> HexEncode(chid),
              Version |-> mc[RecKey(last.uaid, chid)].V] :
                chid \in LiveSince(last.uaid, last.since)}
       /\ Len(last.updates) = Cardinality(LiveSince(last.uaid, last.since))

\* C12: FetchAll(u, time 0) lists in expired every channel of u whose record
\* is DELETED.
C12_FetchAllExpired ==
    \A uaid \in env.uaids, chid \in env.chids :
        (Stored(uaid, chid) /\ mc[RecKey(uaid, chid)].S = DELETED)
        => chid \in Range(FetchAllOp(mc, now, uaid, 0, NoFaults).expired)

\* C13: whenever Register or Update returns nil, the record it was to
\* write is in the store, with the version of the call.
C13_NilMeansWritten ==
    (last.op \in {"Register", "Update"} /\ last.err = Nil)
    => /\ Stored(last.uaid, last.chid)
       /\ mc[RecKey(last.uaid, last.chid)].S \in {REGISTERED, LIVE}
       /\ mc[RecKey(last.uaid, last.chid)].V = uint64(last.version)

\* C14: every stored channel record carries the TTL of its state: a DELETED
\* record UnregisterTimeout (timeout_del), a REGISTERED record
\* RegisterTimeout (timeout_reg), a LIVE record ChannelTimeout (timeout_live).
C14_TtlOfState ==
    \A key \in DOMAIN mc :
        mc[key].t = "cr"
        => /\ mc[key].S = DELETED => mc[key].ttl = UnregisterTimeout
           /\ mc[key].S = REGISTERED => mc[key].ttl = RegisterTimeout
           /\ mc[key].S = LIVE => mc[key].ttl = ChannelTimeout

\* Unregister has written a DELETED record while another channel's record
\* is LIVE, each with the TTL of its state.
C14_Witness ==
    /\ last = OpRec("Unregister", UA, CA, 0, Nil)
    /\ StateIn(mc, UA, CA) = DELETED
    /\ mc[RecKey(UA, CA)].ttl = UnregisterTimeout
    /\ StateIn(mc, UA, CB) = LIVE
    /\ mc[RecKey(UA, CB)].ttl = ChannelTimeout

\* Reads leave the store as it is.
ReadsChangeNothing ==
    (last'.op \in {"Exists", "FetchAll"} /\ now' = now) => mc' = mc

\* A FetchAll that follows a FetchAll with the same arguments returns the
\* same updates.
RepeatedFetchAllAgrees ==
    ( /\ last.op = "FetchAll" /\ last'.op = "FetchAll"
      /\ last'.uaid = last.uaid /\ last'.since = last.since )
    => last'.updates = last.updates

\* A record's lastTouched changes only in a write of that record, to the
\* time of the write.
TouchedOnlyByWrite ==
    \A uaid \in env.uaids, chid \in env.chids :
        LET key == RecKey(uaid, chid)
        IN  (key \in DOMAIN mc' /\ (key \notin DOMAIN mc \/ mc'[key].L # mc[key].L))
            => /\ last'.op \in {"Register", "Update", "Unregister"}
               /\ last'.uaid = uaid /\ last'.chid = chid
               /\ mc'[key].L = now

C16_DropOnlyRecord ==
    [][(last'.op = "Drop" /\ now' = now)
       => LET uaid == last'.uaid
              chid == last'.chid
              r == FetchAllOp(mc', now, uaid, 0, NoFaults)
          IN  /\ last'.err = Nil
              /\ DOMAIN mc' = DOMAIN mc \ {RecKey(uaid, chid)}
              /\ \A k \in DOMAIN mc' : mc'[k] = mc[k]
              /\ DeviceSetIn(mc', uaid) = DeviceSet(uaid)
              /\ \A i \in 1..Len(r.updates) : r.updates[i].ChannelID # HexEncode(chid)
              /\ chid \notin Range(r.expired)]_vars

\* Drop has removed the record of a channel that is still in the DeviceSet,
\* and the other channel's record is still there.
C16_Witness ==
    /\ last = OpRec("Drop", UA, CA, 0, Nil)
    /\ CA \in Range(DeviceSet(UA))
    /\ ~Stored(UA, CA)
    /\ Stored(UA, CB)

\* C17: Unregister(u,c) for a channel c that is not in DeviceSet(u) returns
\* InvalidChannelError and leaves the store as it is.
C17_UnregisterUnknown ==
    [][( /\ last'.op = "Unregister" /\ now' = now
         /\ last'.chid \notin Range(DeviceSet(last'.uaid)) )
       => /\ last'.err = InvalidChannelError
          /\ mc' = mc]_vars

\* Unregister has refused a channel that is not in the DeviceSet although
\* the channel has a record, and has left the record and the list alone.
C17_Witness ==
    /\ last = OpRec("Unregister", UA, CA, 0, InvalidChannelError)
    /\ StateIn(mc, UA, CA) = DELETED
    /\ DeviceSet(UA) = <<CB>>

\* The attempt of Unregister that gets to write under the schedule f: the
\* first whose fetchRec is answered; 3 when every fetchRec fails.
FirstAnswered(f) ==
    IF f[3] = Ok THEN 0 ELSE IF f[5] = Ok THEN 1 ELSE IF f[7] = Ok THEN 2 ELSE 3

\* C18: Unregister(u,c) with c in DeviceSet(u), whatever calls of the backend
\* fail: if the DeviceSet cannot be rewritten it returns the error and has
\* marked nothing; otherwise it returns nil with c out of the DeviceSet after
\* at most 3 attempts, and the record is marked DELETED by the first attempt
\* that is answered, and is as it was if every attempt fails.
C18_UnregisterBestEffort ==
    \A uaid \in env.uaids, chid \in env.chids, f \in env.faults :
        LET r == UnregisterOp(mc, now, uaid, chid, f)
            key == RecKey(uaid, chid)
            x == FirstAnswered(f)
            others == DOMAIN mc \ {key, encodeKey(uaid)}
        IN  (chid \in Range(DeviceSet(uaid)) /\ f[1] = Ok)
            => IF f[2] # Ok
               THEN r.err = f[2] /\ r.mc = mc
               ELSE /\ r.err = Nil
                    /\ chid \notin Range(DeviceSetIn(r.mc, uaid))
                    /\ Range(DeviceSetIn(r.mc, uaid)) = Range(DeviceSet(uaid)) \ {chid}
                    /\ unregisterTries(mc, toBinaryKey(uaid, chid), f, 0) <= 3
                    /\ \A k \in others : k \in DOMAIN r.mc /\ r.mc[k] = mc[k]
                    /\ IF x < 3 /\ f[4 + 2 * x] = Ok
                       THEN StateIn(r.mc, uaid, chid) = DELETED
                       ELSE /\ key \in DOMAIN r.mc <=> key \in DOMAIN mc
                            /\ key \in DOMAIN mc => r.mc[key] = mc[key]

\* Unregister has returned nil and taken the channel out of the DeviceSet,
\* and the record is still LIVE: no attempt to mark it got through.
C18_Witness ==
    /\ last = OpRec("Unregister", UA, CA, 0, Nil)
    /\ CA \notin Range(DeviceSet(UA))
    /\ StateIn(mc, UA, CA) = LIVE

\* C19: once an Update and an Unregister of one channel that ran at the
\* same time have both returned, the record of the channel is DELETED; an
\* Update with a version > 0 that is called after that leaves it LIVE.
C19_UnregisterRace ==
    /\ (race.upd.pc = "done" /\ race.unr.pc = "done" /\ race.later.pc = "idle")
       => StateIn(mc, race.uaid, race.chid) = DELETED
    /\ (race.later.pc = "done" /\ race.later.version > 0)
       => StateIn(mc, race.uaid, race.chid) = LIVE

\* C20: toBinaryKey is injective on pairs of IDs of at most 16 bytes each:
\* two different pairs (u,c) and (u',c') have different keys.
C20_ToBinaryKeyInjective ==
    ( /\ pure.fn = "toBinaryKey" /\ pure.out # <<>>
      /\ <<pure.in[1], pure.in[2]>> # <<pure.in[3], pure.in[4]>> )
    => pure.out[1] # pure.out[2]

\* C21: for non-empty strings u and c, IDsToKey(u, c) succeeds and KeyToIDs
\* of the resulting key returns (u, c, ok = true).
C21_IDsRoundTrip ==
    ( /\ pure.fn = "IDsToKey" /\ pure.out # <<>>
      /\ Len(pure.in[1]) > 0 /\ Len(pure.in[2]) > 0)
    => /\ pure.out[1].ok
       /\ pure.out[2] = [suaid |-> pure.in[1], schid |-> pure.in[2], ok |-> TRUE]

\* C22: KeyToIDs cuts the key at its first separator and reports ok = true
\* only if both halves are non-empty; a key with no separator, with an empty
\* device half or with an empty channel half gives ok = false.
C22_KeyToIDsRejects ==
    (pure.fn = "KeyToIDs" /\ pure.out # <<>>)
    => LET key == pure.in[1]
           r == pure.out[1]
       IN  /\ r.ok => /\ Len(r.suaid) > 0 /\ Len(r.schid) > 0
                      /\ key = r.suaid \o <<Dot>> \o r.schid
                      /\ Dot \notin Range(r.suaid)
           /\ Dot \notin Range(key) => ~r.ok

\* C23: for any stored list of channel IDs, fetchAppIDArray returns
\* normally a list that holds each distinct stored channel ID exactly once
\* and nothing else.
C23_FetchDeduplicates ==
    (pure.fn = "fetchAppIDArray" /\ pure.out # <<>>)
    => LET stored == pure.in[1]
           r == pure.out[1]
       IN  /\ r.err = Nil
           /\ Range(r.result) = Range(stored)
           /\ \A chid \in Range(stored) : Occurrences(r.result, chid) = 1

\* The number of connections the pool holds: idle plus in use.
Held == Len(clients) + Cardinality(InUse)

\* The step is the run loop's answer to an acquisition of the caller p.
Answered(p) ==
    /\ lastGet' # lastGet
    /\ lastGet'.caller = p
    /\ lastGet'.via = "acquisitions"

\* C24: the run loop answers an acquisition with the first idle connection
\* when the idle list is non-empty; with a newly opened connection when the
\* idle list is empty and the pool holds fewer than MaxConns connections
\* (unless the connection attempt itself fails); and with PoolSaturated and
\* no connection when the idle list is empty and the pool is at MaxConns.
C24_AcquisitionPolicy ==
    [][\A p \in Callers :
         Answered(p) =>
           IF Len(clients) > 0
           THEN /\ callers'[p].pc = "holding"
                /\ lastGet'.err = Nil
                /\ callers'[p].client = Head(clients)
                /\ lastGet'.client = Head(clients)
                /\ clients' = Tail(clients)
                /\ conns' = conns
           ELSE IF Held < MaxConns
           THEN \/ /\ callers'[p].pc = "holding"
                   /\ lastGet'.err = Nil
                   /\ lastGet'.client = callers'[p].client
                   /\ callers'[p].client \notin DOMAIN conns
                   /\ conns'[callers'[p].client] = "open"
                \/ /\ callers'[p].pc = "idle"
                   /\ lastErr' = ErrConnect
           ELSE /\ callers'[p].pc = "idle"
                /\ lastGet'.err = ErrPoolSaturated
                /\ lastGet'.client = 0
                /\ conns' = conns
                /\ clients' = clients]_vars

\* The step is the run loop's receipt of the connection the caller p
\* releases.
Released(p) ==
    /\ callers[p].pc = "releasing"
    /\ callers'[p].pc = "idle"

\* C25: a connection released into an open pool that holds at most MaxConns
\* connections (idle plus in use, the released one included) is put back at
\* the end of the idle list and stays open.
C25_ReleaseRequeues ==
    [][\A p \in Callers :
         (Released(p) /\ ~closeSignal /\ Held <= MaxConns)
         => /\ clients' = Append(clients, callers[p].client)
            /\ conns'[callers[p].client] = "open"]_vars

\* The close signal is raised at most once, isClosing is set exactly when
\* it is raised, and once the run loop has ended every idle connection is
\* closed.
CloseOnce ==
    /\ closeCount <= 1
    /\ isClosing <=> closeSignal
    /\ closeSignal <=> closeCount = 1
    /\ loop = "exited" =>
         /\ closeSignal
         /\ \A c \in Range(clients) : conns[c] = "closed"

\* C26: under any interleaving of Close calls and fatal errors the close
\* signal is raised and isClosing is set exactly once, the run loop then
\* terminates, and every connection idle when the loop ends is closed.
C26_CloseIdempotent ==
    /\ []CloseOnce
    /\ closeSignal ~> loop = "exited"

\* A connection attempt failed and Close was called; the run loop has ended
\* and has closed an idle connection.
C26_Witness ==
    /\ lastErr = ErrConnect
    /\ \E q \in Closers : closers[q].pc = "returned"
    /\ closeCount = 1
    /\ loop = "exited"
    /\ Len(clients) > 0
    /\ \A c \in Range(clients) : conns[c] = "closed"

\* C27: once the pool is closed, a caller that is in releaseClient with the
\* connection it holds eventually returns from it.
C27_ReleaseReturns ==
    \A p \in Callers :
        (closeSignal /\ callers[p].pc = "releasing") ~> (callers[p].pc = "idle")

\* C28: a connection-creation error closes the pool and is recorded as
\* lastErr, and every getClient that returns after it returns lastErr and no
\* connection.
C28_FatalReturnsLastErr ==
    /\ [](lastErr # Nil => (isClosing /\ closeSignal))
    /\ [][(lastErr # Nil /\ lastGet' # lastGet)
          => (lastGet'.err = lastErr /\ lastGet'.client = 0)]_vars

\* C29: a step of the routed-update receiver leaves the channel store
\* unchanged.
C29_ReceiverDoesNotWrite ==
    [][(last'.op = "updater" /\ now' = now) => mc' = mc]_vars

\* C30: the routed-update receiver queues a flush of the posted (chid,
\* version) and reports success if a client of the update's device ID is in
\* the table; otherwise it queues nothing and does not report success.
C30_FlushIffWorker ==
    [][(last'.op = "updater" /\ now' = now) =>
         IF last'.uaid \in DOMAIN Clients
         THEN /\ Clients' = Flush(Clients, last'.uaid, last'.chid, last'.version)
              /\ last'.err = Nil
         ELSE /\ Clients' = Clients
              /\ last'.err # Nil]_vars

\* A step of RemoveWorker's critical section taken by the goroutine of w.
RemoveWorkerStep(w) ==
    /\ goroutines[w].rm = "RemoveWorker lock"
    /\ goroutines'[w].rm # "RemoveWorker lock"

\* C31: RemoveWorker(uaid, w) removes the entry of uaid only if the installed
\* worker is w, and then returns true; if another worker or none is installed
\* the table and WorkerCount are unchanged and it returns false, so a displaced
\* worker that closes late never evicts its replacement.
C31_RemoveOnlyIfSame ==
    [][\A w \in Workers :
         RemoveWorkerStep(w) =>
           LET uaid == goroutines[w].uaid
           IN  IF uaid \in DOMAIN workers /\ workers[uaid] = w
               THEN /\ goroutines'[w].removed
                    /\ DOMAIN workers' = DOMAIN workers \ {uaid}
                    /\ \A u \in DOMAIN workers' : workers'[u] = workers[u]
               ELSE /\ ~goroutines'[w].removed
                    /\ workers' = workers
                    /\ workerCount' = workerCount
                    /\ goroutines'[w].rm = "gone"]_vars

\* A displaced worker has returned from RemoveWorker with false while its
\* replacement is installed.
C31_Witness ==
    /\ closeOnce.pc = "idle"
    /\ \E w \in Workers :
         /\ goroutines[w].rm = "gone"
         /\ ~goroutines[w].removed
         /\ goroutines[w].uaid \in DOMAIN workers
         /\ workers[goroutines[w].uaid] # w

\* No call of AddWorker, RemoveWorker or Close is in progress.
Quiescent ==
    /\ \A w \in Workers : /\ goroutines[w].pc \in {"new", "live"}
                           /\ goroutines[w].rm \in {"idle", "gone"}
    /\ closeOnce.pc \in {"idle", "returned"}

\* C32: at every quiescent point WorkerCount() equals the number of entries of
\* the worker table, also after AddWorker for an installed device ID and after
\* shutdown.
C32_CountMatchesTable ==
    Quiescent => workerCount = Cardinality(DOMAIN workers)

\* C33: the store leaks no connection: a store operation has released every
\* connection it acquired when it returns, on every path, and holds no
\* connection when it acquires one, so one operation never needs two
\* connections of the pool.
C33_NoConnectionLeaked ==
    \A p \in env.callers :
        /\ callers[p].op = "none" =>
             callers[p].pc = "idle" /\ callers[p].client = 0
        /\ (callers[p].todo # <<>> /\ Head(callers[p].todo) = "getClient") =>
             callers[p].pc = "idle" /\ callers[p].client = 0

\* Register has had and released two connections and is about to acquire its
\* third, for storeRec.
C33_Witness ==
    \E p \in env.callers :
        /\ callers[p].op = "Register"
        /\ callers[p].fns = <<>>
        /\ callers[p].todo = <<"getClient", "releaseClient">>
        /\ lastGet.caller = p
        /\ lastGet.err = Nil
        /\ capacity = MaxConns

\* C34: the open pool is never permanently saturated: an acquisition that
\* the run loop answers while no connection is in use and the pool stays open
\* obtains a connection, also after acquisitions and releases that drove the
\* pool to MaxConns.
C34_NeverPermanentlySaturated ==
    [][\A p \in Callers :
         (Answered(p) /\ InUse = {} /\ ~closeSignal')
           => lastGet'.err = Nil /\ lastGet'.client # 0]_vars

\* C35: once a call of Close() has returned no getClient obtains a
\* connection: each fails with an error.
C35_ClosedPoolRefuses ==
    [][(\E q \in Closers : closers[q].pc = "returned")
         => \A p \in Callers :
              ~(callers[p].pc = "idle" /\ callers'[p].pc = "holding")]_vars

\* The racing Register of the goroutine g has returned nil.
Registered(g) == race.regs[g].pc = "done" /\ race.regs[g].err = Nil

\* C36: when two Registers of distinct channels of one device that ran at
\* the same time have both returned nil, the DeviceSet of the device holds
\* both channels; when a Register and an Unregister of another channel that
\* ran at the same time have both returned nil, it holds the registered
\* channel.
C36_ConcurrentRegisters ==
    /\ (Registered(1) /\ Registered(2))
         => {race.regs[1].chid, race.regs[2].chid} \subseteq Range(DeviceSet(race.uaid))
    /\ (Registered(1) /\ race.unr.pc = "done" /\ race.unr.err = Nil)
         => race.regs[1].chid \in Range(DeviceSet(race.uaid))

\* C37: after any sequence of Register, Update, Unregister, Drop and DropAll
\* calls that do not overlap and do not fail, every stored record whose state
\* is LIVE or REGISTERED belongs to a channel of its device's DeviceSet.
C37_LiveRecordsListed ==
    \A uaid \in env.uaids, chid \in env.chids :
        StateIn(mc, uaid, chid) \in {LIVE, REGISTERED}
          => chid \in Range(DeviceSet(uaid))

\* An Unregister has just taken one channel out of the DeviceSet and marked
\* its record DELETED while the other channel is LIVE and listed.
C37_Witness ==
    /\ last.op = "Unregister" /\ last.err = Nil
    /\ StateIn(mc, UA, last.chid) = DELETED
    /\ last.chid \notin Range(DeviceSet(UA))
    /\ \E chid \in env.chids :
         /\ chid # last.chid
         /\ StateIn(mc, UA, chid) = LIVE
         /\ chid \in Range(DeviceSet(UA))

\* C38: WorkerCount() is never negative, in every interleaving of AddWorker
\* and RemoveWorker calls that run at the same time.
C38_CountNeverNegative == workerCount >= 0

\* AddWorker has stored w in the table and RemoveWorker has not removed it.
Installed(w) ==
    /\ goroutines[w].pc \in {"AddWorker count", "live"}
    /\ ~goroutines[w].removed

\* C39: once Application.Close has returned the worker table is empty, every
\* worker that was installed and not removed has been closed, and an
\* AddWorker called after that closes its worker and installs nothing.
C39_CloseEmptiesTable ==
    [][closeOnce.pc = "returned"
         => /\ DOMAIN workers = {}
            /\ \A w \in Workers :
                 /\ Installed(w) => w \in closedWorkers
                 /\ (goroutines[w].pc = "AddWorker" /\ goroutines'[w].pc # "AddWorker")
                      => /\ w \in closedWorkers'
                         /\ workers' = workers
                         /\ workerCount' = workerCount]_vars

\* C40: whenever an AddWorker(uaid, w) and Application.Close that ran at the
\* same time have both returned, w is not installed without having been
\* closed.
C40_AddDuringClose ==
    closeOnce.pc = "returned"
      => \A w \in Workers :
           (goroutines[w].pc = "live" /\ GetWorker(workers, goroutines[w].uaid) = w)
             => w \in closedWorkers

====
